---- MODULE Spec2Model ----
(***************************************************************************)
(* Model of wasix-sendmail's RFC 5322 addr-spec grammar engine             *)
(* (src/parser/email_parser.rs).  The engine is built from chumsky         *)
(* combinators, which form a PEG: `choice` commits to its first            *)
(* alternative that succeeds, `repeated` is greedy and rewinds only the    *)
(* iteration that failed, `or_not` rewinds a failed attempt, and `then`    *)
(* never re-enters an earlier parser.  A string is a sequence of Unicode   *)
(* scalar values (Rust `char`), a position is the number of characters     *)
(* consumed so far, and every parser is an operator from (input, position) *)
(* to a result [ok, pos, out].                                             *)
(***************************************************************************)
EXTENDS Integers, Sequences, FiniteSets, TLC

(***************************************************************************)
(* Characters (code points).                                               *)
(***************************************************************************)
HTAB == 9
LF == 10
VT == 11
CR == 13
SP == 32
DQUOTE == 34
LPAREN == 40
RPAREN == 41
DOT == 46
AT == 64
LBRACKET == 91
BACKSLASH == 92
RBRACKET == 93
LetterA == 97

COLON == 58

FF == 12
SOH == 1
DEL == 127
EAcute == 233

(***************************************************************************)
(* Parser results and the combinators' plumbing.                           *)
(***************************************************************************)
Fail == [ok |-> FALSE, pos |-> 0, out |-> <<>>]

Ok(p, o) == [ok |-> TRUE, pos |-> p, out |-> o]

\* name the value x in the rest K of a parser
With(x, K(_)) == K(x)

\* choice((r, alt)): the first alternative if it succeeded, else the next
OrElse(r, alt) == IF r.ok THEN r ELSE alt

\* r.or_not() at position p: the position after r, or p when r failed
OrNot(r, p) == IF r.ok THEN r.pos ELSE p

\* just(c): the next character is c
just(s, p, c) == p < Len(s) /\ s[p + 1] = c

(***************************************************************************)
(* Character classes.                                                      *)
(***************************************************************************)
wsp(c) == c \in {SP, HTAB}

atext(c) ==
    \/ c >= 65 /\ c <= 90
    \/ c >= 97 /\ c <= 122
    \/ c >= 48 /\ c <= 57
    \/ c \in {33, 35, 36, 37, 38, 39, 42, 43, 45, 47, 61, 63, 94, 95, 96, 123, 124, 125, 126}

\* qtext without its range check
qtext_unchecked(c) == c # DQUOTE /\ c # BACKSLASH /\ c \notin {SP, HTAB, CR, LF}

qtext(c) == c # DQUOTE /\ c # BACKSLASH /\ c >= 33 /\ c <= 126

ctext(c) == c >= 33 /\ c <= 126 /\ c # LPAREN /\ c # RPAREN /\ c # BACKSLASH

\* the plain-character alternative of dtext
dtext_char(c) == (c >= 33 /\ c <= 90) \/ (c >= 94 /\ c <= 126)

\* the characters a quoted-pair may escape: SP, HTAB and 33..=126
quoted_pair_chars(c) == c \in {SP, HTAB} \/ (c >= 33 /\ c <= 126)

\* quoted_pair that returns the escaped character without its backslash
quoted_pair_unescaped(s, p) ==
    IF just(s, p, BACKSLASH) /\ p + 1 < Len(s) /\ quoted_pair_chars(s[p + 2])
    THEN Ok(p + 2, <<s[p + 2]>>)
    ELSE Fail

\* quoted-pair = "\" (VCHAR / WSP), kept verbatim
quoted_pair(s, p) ==
    IF just(s, p, BACKSLASH) /\ p + 1 < Len(s) /\ quoted_pair_chars(s[p + 2])
    THEN Ok(p + 2, <<BACKSLASH, s[p + 2]>>)
    ELSE Fail

(***************************************************************************)
(* Greedy repetitions.                                                     *)
(***************************************************************************)
RECURSIVE wsp_repeated(_, _)
\* wsp().repeated(): the position after the longest run of WSP
wsp_repeated(s, p) ==
    IF p < Len(s) /\ wsp(s[p + 1]) THEN wsp_repeated(s, p + 1) ELSE p

RECURSIVE atext_repeated(_, _)
\* atext().repeated(): the position after the longest run of atext
atext_repeated(s, p) ==
    IF p < Len(s) /\ atext(s[p + 1]) THEN atext_repeated(s, p + 1) ELSE p

\* one CRLF 1*WSP group: the position after it, or p when it does not match
crlf_wsp(s, p) ==
    IF just(s, p, CR) /\ just(s, p + 1, LF)
    THEN With(wsp_repeated(s, p + 2), LAMBDA e : IF e > p + 2 THEN e ELSE p)
    ELSE p

RECURSIVE crlf_wsp_repeated(_, _, _)
\* (CRLF 1*WSP).repeated(): [pos, n] after n groups
crlf_wsp_repeated(s, p, n) ==
    With(crlf_wsp(s, p), LAMBDA q :
        IF q > p THEN crlf_wsp_repeated(s, q, n + 1) ELSE [pos |-> p, n |-> n])

\* n mapped " " strings joined
Spaces(n) == [i \in 1..n |-> SP]

(***************************************************************************)
(* FWS.                                                                    *)
(***************************************************************************)
\* obs-FWS = 1*WSP *(CRLF 1*WSP)
obs_fws(s, p) ==
    With(wsp_repeated(s, p), LAMBDA a :
        IF a > p THEN Ok(crlf_wsp_repeated(s, a, 0).pos, <<>>) ELSE Fail)

\* first alternative of fws(): *WSP, *(CRLF 1*WSP), then 1*WSP
fws_standard(s, p) ==
    With(crlf_wsp_repeated(s, wsp_repeated(s, p), 0).pos, LAMBDA b :
    With(wsp_repeated(s, b), LAMBDA c :
        IF c > b THEN Ok(c, <<>>) ELSE Fail))

\* third alternative of fws(): 1*WSP
fws_simple(s, p) ==
    With(wsp_repeated(s, p), LAMBDA a : IF a > p THEN Ok(a, <<>>) ELSE Fail)

\* FWS: choice((standard, obs_fws, 1*WSP))
fws(s, p) == OrElse(fws_standard(s, p), OrElse(obs_fws(s, p), fws_simple(s, p)))

\* fws_as_space that turns the whole run into one space
fws_as_space_collapsing(s, p) ==
    With(wsp_repeated(s, p), LAMBDA a :
    With(crlf_wsp_repeated(s, a, 0), LAMBDA g :
    With(wsp_repeated(s, g.pos), LAMBDA c :
        Ok(c, IF c > p THEN <<SP>> ELSE <<>>))))

\* fws_as_space that keeps the run as it is written, line breaks included
fws_as_space_verbatim(s, p) ==
    With(wsp_repeated(s, p), LAMBDA a :
    With(crlf_wsp_repeated(s, a, 0), LAMBDA g :
    With(wsp_repeated(s, g.pos), LAMBDA c :
        Ok(c, SubSeq(s, p + 1, c)))))

\* first alternative of fws_as_space(): *WSP kept, each CRLF 1*WSP mapped to
\* one space, then *WSP kept; every part may be empty, so it always succeeds
fws_as_space_standard(s, p) ==
    With(wsp_repeated(s, p), LAMBDA a :
    With(crlf_wsp_repeated(s, a, 0), LAMBDA g :
    With(wsp_repeated(s, g.pos), LAMBDA c :
        Ok(c, SubSeq(s, p + 1, a) \o Spaces(g.n) \o SubSeq(s, g.pos + 1, c)))))

\* second alternative of fws_as_space(): 1*WSP kept, each CRLF 1*WSP one space
fws_as_space_obs(s, p) ==
    With(wsp_repeated(s, p), LAMBDA a :
    With(crlf_wsp_repeated(s, a, 0), LAMBDA g :
        IF a > p THEN Ok(g.pos, SubSeq(s, p + 1, a) \o Spaces(g.n)) ELSE Fail))

\* third alternative of fws_as_space(): 1*WSP kept
fws_as_space_simple(s, p) ==
    With(wsp_repeated(s, p), LAMBDA a :
        IF a > p THEN Ok(a, SubSeq(s, p + 1, a)) ELSE Fail)

\* FWS inside quoted material: choice((standard, obs, 1*WSP))
fws_as_space(s, p) ==
    OrElse(fws_as_space_standard(s, p),
           OrElse(fws_as_space_obs(s, p), fws_as_space_simple(s, p)))

\* fws().or_not(): the position after an optional FWS
opt_fws(s, p) == OrNot(fws(s, p), p)

(***************************************************************************)
(* Comments and CFWS.                                                      *)
(***************************************************************************)
RECURSIVE comment(_, _), comment_items(_, _), ccontent(_, _)
\* ccontent = ctext / quoted-pair / comment
ccontent(s, p) ==
    IF p < Len(s) /\ ctext(s[p + 1]) THEN Ok(p + 1, <<>>)
    ELSE IF quoted_pair(s, p).ok THEN Ok(p + 2, <<>>)
    ELSE comment(s, p)

\* ([simple_fws] ccontent).repeated(): the position after the last complete
\* item; simple_fws is 1*WSP
comment_items(s, p) ==
    With(ccontent(s, wsp_repeated(s, p)), LAMBDA c :
        IF c.ok THEN comment_items(s, c.pos) ELSE p)

\* comment = "(" *([FWS] ccontent) [FWS] ")"
comment(s, p) ==
    IF just(s, p, LPAREN)
    THEN With(wsp_repeated(s, comment_items(s, p + 1)), LAMBDA e :
             IF just(s, e, RPAREN) THEN Ok(e + 1, <<>>) ELSE Fail)
    ELSE Fail

RECURSIVE cfws_items(_, _)
\* ([FWS] comment [FWS]).repeated()
cfws_items(s, p) ==
    With(comment(s, opt_fws(s, p)), LAMBDA c :
        IF c.ok THEN cfws_items(s, opt_fws(s, c.pos)) ELSE p)

\* CFWS = (1*([FWS] comment) [FWS]) / FWS
cfws(s, p) ==
    With(cfws_items(s, p), LAMBDA e :
        IF e > p THEN Ok(opt_fws(s, e), <<>>) ELSE fws(s, p))

\* cfws().or_not()
opt_cfws(s, p) == OrNot(cfws(s, p), p)

(***************************************************************************)
(* dot-atom, atom and the obsolete domain.                                 *)
(***************************************************************************)
RECURSIVE dot_atext_repeated(_, _)
\* ("." 1*atext).repeated(): the position after the last complete group
dot_atext_repeated(s, p) ==
    IF just(s, p, DOT)
    THEN With(atext_repeated(s, p + 1), LAMBDA e :
             IF e > p + 1 THEN dot_atext_repeated(s, e) ELSE p)
    ELSE p

\* dot-atom-text that also takes one "." after its last atext run
dot_atom_text_trailing_dot(s, p) ==
    With(atext_repeated(s, p), LAMBDA a :
        IF a > p
        THEN With(dot_atext_repeated(s, a), LAMBDA e :
             With(IF just(s, e, DOT) THEN e + 1 ELSE e, LAMBDA z :
                 Ok(z, SubSeq(s, p + 1, z))))
        ELSE Fail)

\* dot-atom-text = 1*atext *("." 1*atext); the parts joined by "." are the
\* matched text itself
dot_atom_text_parser(s, p) ==
    With(atext_repeated(s, p), LAMBDA a :
        IF a > p
        THEN With(dot_atext_repeated(s, a), LAMBDA e : Ok(e, SubSeq(s, p + 1, e)))
        ELSE Fail)

\* dot-atom = [CFWS] dot-atom-text [CFWS]
dot_atom_parser(s, p) ==
    With(dot_atom_text_parser(s, opt_cfws(s, p)), LAMBDA t :
        IF t.ok THEN Ok(opt_cfws(s, t.pos), t.out) ELSE Fail)

\* atom that returns its CFWS together with its text
atom_with_cfws(s, p) ==
    With(opt_cfws(s, p), LAMBDA a :
    With(atext_repeated(s, a), LAMBDA e :
    With(opt_cfws(s, e), LAMBDA z :
        IF e > a THEN Ok(z, SubSeq(s, p + 1, z)) ELSE Fail)))

\* atom that accepts an empty run of atext
atom_empty(s, p) ==
    With(opt_cfws(s, p), LAMBDA a :
    With(atext_repeated(s, a), LAMBDA e :
        Ok(opt_cfws(s, e), SubSeq(s, a + 1, e))))

\* atom = [CFWS] 1*atext [CFWS]
atom(s, p) ==
    With(opt_cfws(s, p), LAMBDA a :
    With(atext_repeated(s, a), LAMBDA e :
        IF e > a THEN Ok(opt_cfws(s, e), SubSeq(s, a + 1, e)) ELSE Fail))

RECURSIVE dot_atom_repeated(_, _, _)
\* ("." atom).repeated(), each part pushed after a "."
dot_atom_repeated(s, p, acc) ==
    With(IF just(s, p, DOT) THEN atom(s, p + 1) ELSE Fail, LAMBDA w :
        IF w.ok THEN dot_atom_repeated(s, w.pos, acc \o <<DOT>> \o w.out)
        ELSE Ok(p, acc))

\* obs-domain = atom *("." atom)
obs_domain_parser(s, p) ==
    With(atom(s, p), LAMBDA first :
        IF first.ok THEN dot_atom_repeated(s, first.pos, first.out) ELSE Fail)

(***************************************************************************)
(* quoted-string.                                                          *)
(***************************************************************************)
\* qcontent = quoted-pair / qtext (quoted-pair tried first)
qcontent(s, p) ==
    OrElse(quoted_pair(s, p),
           IF p < Len(s) /\ qtext(s[p + 1]) THEN Ok(p + 1, <<s[p + 1]>>) ELSE Fail)

\* fws_as_space().then(qcontent()), mapped to the two texts joined
fws_then_qcontent(s, p) ==
    With(fws_as_space(s, p), LAMBDA f :
        IF f.ok
        THEN With(qcontent(s, f.pos), LAMBDA q :
                 IF q.ok THEN Ok(q.pos, f.out \o q.out) ELSE Fail)
        ELSE Fail)

RECURSIVE qcontent_repeated(_, _, _)
\* choice((fws_as_space qcontent), qcontent).repeated(), the parts joined
qcontent_repeated(s, p, acc) ==
    With(OrElse(fws_then_qcontent(s, p), qcontent(s, p)), LAMBDA item :
        IF item.ok THEN qcontent_repeated(s, item.pos, acc \o item.out)
        ELSE Ok(p, acc))

\* quoted-string that returns its content without the double quotes
quoted_string_unquoted(s, p) ==
    With(opt_cfws(s, p), LAMBDA a :
        IF just(s, a, DQUOTE)
        THEN With(qcontent_repeated(s, a + 1, <<>>), LAMBDA body :
             With(fws_as_space(s, body.pos), LAMBDA t :
             With(OrNot(t, body.pos), LAMBDA e :
                 IF just(s, e, DQUOTE)
                 THEN Ok(opt_cfws(s, e + 1),
                         body.out \o (IF t.ok THEN t.out ELSE <<>>))
                 ELSE Fail)))
        ELSE Fail)

\* quoted-string = [CFWS] DQUOTE *([FWS] qcontent) [FWS] DQUOTE [CFWS]
quoted_string_parser(s, p) ==
    With(opt_cfws(s, p), LAMBDA a :
        IF just(s, a, DQUOTE)
        THEN With(qcontent_repeated(s, a + 1, <<>>), LAMBDA body :
             With(fws_as_space(s, body.pos), LAMBDA t :
             With(OrNot(t, body.pos), LAMBDA e :
                 IF just(s, e, DQUOTE)
                 THEN Ok(opt_cfws(s, e + 1),
                         <<DQUOTE>> \o body.out
                             \o (IF t.ok THEN t.out ELSE <<>>) \o <<DQUOTE>>)
                 ELSE Fail)))
        ELSE Fail)

(***************************************************************************)
(* The obsolete local part.                                                *)
(***************************************************************************)
\* word = atom / quoted-string
obs_word(s, p) == OrElse(atom(s, p), quoted_string_parser(s, p))

RECURSIVE dot_word_repeated(_, _, _)
\* ("." word).repeated(), each part pushed after a "."
dot_word_repeated(s, p, acc) ==
    With(IF just(s, p, DOT) THEN obs_word(s, p + 1) ELSE Fail, LAMBDA w :
        IF w.ok THEN dot_word_repeated(s, w.pos, acc \o <<DOT>> \o w.out)
        ELSE Ok(p, acc))

\* obs-local-part = word *("." word)
obs_local_part_parser(s, p) ==
    With(obs_word(s, p), LAMBDA first :
        IF first.ok THEN dot_word_repeated(s, first.pos, first.out) ELSE Fail)

(***************************************************************************)
(* domain-literal.                                                         *)
(***************************************************************************)
\* dtext = quoted-pair / %d33-90 / %d94-126 (quoted-pair tried first)
dtext(s, p) ==
    OrElse(quoted_pair(s, p),
           IF p < Len(s) /\ dtext_char(s[p + 1]) THEN Ok(p + 1, <<s[p + 1]>>)
           ELSE Fail)

RECURSIVE dtext_repeated(_, _, _)
\* dtext().repeated(), the parts joined
dtext_repeated(s, p, acc) ==
    With(dtext(s, p), LAMBDA d :
        IF d.ok THEN dtext_repeated(s, d.pos, acc \o d.out) ELSE Ok(p, acc))

RECURSIVE dliteral_repeated(_, _, _)
\* (fws_as_space().or_not() 1*dtext).repeated(), the parts joined
dliteral_repeated(s, p, acc) ==
    With(fws_as_space(s, p), LAMBDA f :
    With(dtext_repeated(s, OrNot(f, p), <<>>), LAMBDA d :
        IF d.pos > OrNot(f, p)
        THEN dliteral_repeated(s, d.pos,
                               acc \o (IF f.ok THEN f.out ELSE <<>>) \o d.out)
        ELSE Ok(p, acc)))

\* domain-literal that does not need its closing "]"
domain_literal_unclosed(s, p) ==
    With(opt_cfws(s, p), LAMBDA a :
        IF just(s, a, LBRACKET)
        THEN With(dliteral_repeated(s, a + 1, <<>>), LAMBDA body :
             With(opt_fws(s, body.pos), LAMBDA e :
                 Ok(opt_cfws(s, IF just(s, e, RBRACKET) THEN e + 1 ELSE e),
                    <<LBRACKET>> \o body.out \o <<RBRACKET>>)))
        ELSE Fail)

\* domain-literal = [CFWS] "[" *([FWS] dtext) [FWS] "]" [CFWS]; the FWS before
\* "]" is parsed by fws() and the map drops it
domain_literal_parser(s, p) ==
    With(opt_cfws(s, p), LAMBDA a :
        IF just(s, a, LBRACKET)
        THEN With(dliteral_repeated(s, a + 1, <<>>), LAMBDA body :
             With(opt_fws(s, body.pos), LAMBDA e :
                 IF just(s, e, RBRACKET)
                 THEN Ok(opt_cfws(s, e + 1),
                         <<LBRACKET>> \o body.out \o <<RBRACKET>>)
                 ELSE Fail))
        ELSE Fail)

(***************************************************************************)
(* addr-spec.                                                              *)
(***************************************************************************)
\* local-part: choice((dot_atom, obs_local_part, quoted_string))
local_part_parser(s, p) ==
    OrElse(dot_atom_parser(s, p),
           OrElse(obs_local_part_parser(s, p), quoted_string_parser(s, p)))

\* domain: choice((domain_literal, obs_domain, dot_atom))
domain_parser(s, p) ==
    OrElse(domain_literal_parser(s, p),
           OrElse(obs_domain_parser(s, p), dot_atom_parser(s, p)))

\* [CFWS] local-part "@" domain [CFWS], without the end check
addr_spec_parser_internal(s, p) ==
    With(local_part_parser(s, opt_cfws(s, p)), LAMBDA local :
        IF local.ok /\ just(s, local.pos, AT)
        THEN With(domain_parser(s, local.pos + 1), LAMBDA domain :
                 IF domain.ok
                 THEN Ok(opt_cfws(s, domain.pos),
                         local.out \o <<AT>> \o domain.out)
                 ELSE Fail)
        ELSE Fail)

\* addr_spec_parser without the end() check
addr_spec_parser_no_end(s) == addr_spec_parser_internal(s, 0)

\* addr_spec_parser_internal().then_ignore(end())
addr_spec_parser(s) ==
    With(addr_spec_parser_internal(s, 0), LAMBDA r :
        IF r.ok /\ r.pos = Len(s) THEN r ELSE Fail)

\* Ok(normalized) or Err(ParseError::InvalidEmail(value))
parse_email_address(value) ==
    With(addr_spec_parser(value), LAMBDA r :
        IF r.ok THEN [ok |-> TRUE, val |-> r.out]
        ELSE [ok |-> FALSE, val |-> value])

(***************************************************************************)
(* parser.rs: parse_email_headers.                                         *)
(***************************************************************************)
\* char::is_whitespace on the characters of the model
is_whitespace(c) == c \in {HTAB, LF, VT, FF, CR, SP}

RECURSIVE trim_start(_)
trim_start(s) ==
    IF s # <<>> /\ is_whitespace(s[1]) THEN trim_start(Tail(s)) ELSE s

RECURSIVE trim_end(_)
trim_end(s) ==
    IF s # <<>> /\ is_whitespace(s[Len(s)])
    THEN trim_end(SubSeq(s, 1, Len(s) - 1)) ELSE s

\* str::trim
trim(s) == trim_end(trim_start(s))

\* a line of str::lines without its line ending: "\n", or "\r\n"
strip_line_ending(l) ==
    IF l # <<>> /\ l[Len(l)] = LF
    THEN IF Len(l) >= 2 /\ l[Len(l) - 1] = CR
         THEN SubSeq(l, 1, Len(l) - 2)
         ELSE SubSeq(l, 1, Len(l) - 1)
    ELSE l

RECURSIVE lines(_, _, _)
\* str::lines: the text from index i on, split after every "\n", cur being
\* the line read so far; no line is produced for the end of the text
lines(t, i, cur) ==
    IF i > Len(t) THEN (IF cur = <<>> THEN <<>> ELSE <<cur>>)
    ELSE IF t[i] = LF
         THEN <<strip_line_ending(cur \o <<LF>>)>> \o lines(t, i + 1, <<>>)
    ELSE lines(t, i + 1, cur \o <<t[i]>>)

\* the index of the last colon instead of the first
find_last_colon(l) ==
    IF \E i \in 1..Len(l) : l[i] = COLON
    THEN CHOOSE i \in 1..Len(l) : l[i] = COLON /\ \A j \in (i + 1)..Len(l) : l[j] # COLON
    ELSE 0

\* str::find(':'): the index of the first colon, 0 when there is none
find_colon(l) ==
    IF \E i \in 1..Len(l) : l[i] = COLON
    THEN CHOOSE i \in 1..Len(l) : l[i] = COLON /\ \A j \in 1..(i - 1) : l[j] # COLON
    ELSE 0

\* HeaderField { name, value } of a line with its first colon at index k
HeaderField(l, k) ==
    [name |-> trim(SubSeq(l, 1, k - 1)), value |-> trim(SubSeq(l, k + 1, Len(l)))]

\* the continuation line pushed as it is, without the space and the trim
push_continuation_raw(cur, l) ==
    [name |-> cur.name, value |-> cur.value \o l]

\* cur.value.push(' '); cur.value.push_str(line.trim())
push_continuation(cur, l) ==
    [name |-> cur.name, value |-> cur.value \o <<SP>> \o trim(l)]

\* the end of the header section only at a line with no character at all
is_header_end_untrimmed(l) == l = <<>>

\* line.trim().is_empty(): the end of the header section
is_header_end(l) == trim(l) = <<>>

\* line.starts_with(' ') || line.starts_with('\t')
is_continuation(l) == l # <<>> /\ l[1] \in {SP, HTAB}

\* one pass of the loop body in which a line without a colon leaves
\* `current` open
header_step_keep_current(st, l) ==
    IF is_continuation(l)
    THEN [headers |-> st.headers,
          current |-> IF st.current # <<>>
                      THEN <<push_continuation(st.current[1], l)>>
                      ELSE <<>>]
    ELSE IF find_colon(l) # 0
         THEN [headers |-> st.headers \o st.current,
               current |-> <<HeaderField(l, find_colon(l))>>]
    ELSE st

\* one pass of the loop body for a line that is not the end of the header
\* section; st is [headers, current], current <<>> for None and <<field>>
\* for Some
header_step(st, l) ==
    IF is_continuation(l)
    THEN [headers |-> st.headers,
          current |-> IF st.current # <<>>
                      THEN <<push_continuation(st.current[1], l)>>
                      ELSE <<>>]
    ELSE [headers |-> st.headers \o st.current,
          current |-> IF find_colon(l) # 0
                      THEN <<HeaderField(l, find_colon(l))>>
                      ELSE <<>>]

RECURSIVE header_loop(_, _, _)
\* the loop over the lines ls from index i on, up to the end of the header
\* section, and the final flush of `current`
header_loop(ls, i, st) ==
    IF i > Len(ls) \/ is_header_end(ls[i]) THEN st.headers \o st.current
    ELSE header_loop(ls, i + 1, header_step(st, ls[i]))

parse_email_headers(email) ==
    header_loop(lines(email, 1, <<>>), 1, [headers |-> <<>>, current |-> <<>>])

(***************************************************************************)
(* The state: one call of parse_email_address on `input`, and a second     *)
(* call on the normalized address the first one returned; one call of      *)
(* parse_email_headers on `email`.                                         *)
(***************************************************************************)
VARIABLES input, result, second, pc, email, headers,
          cli, lettre, recipients, envelope_from, sends, exit, made,
          consulted, lettre_from,
          config, created, response, reply, env, lock, threads, file, calls

\* the state of one run of run_sendmail
rvars == <<cli, lettre, recipients, envelope_from, sends, exit, made,
           consulted, lettre_from>>

\* one call of create_from_config
bvars == <<config, created>>

\* one call of ApiBackend::send
pvars == <<response, reply>>

\* the process environment, PARSER_MUTEX and the threads in parse_cli_args
evars == <<env, lock, threads>>

\* the file of a FileBackend and the sends made to it
fvars == <<file, calls>>

\* the state outside the parsers and run_sendmail
wvars == <<bvars, pvars, evars, fvars>>

vars == <<input, result, second, pc, email, headers, rvars, wvars>>

NoBackend == config = <<>> /\ created = <<>>

NoApi == response = <<>> /\ reply = <<>>

NoEnv == env = <<>> /\ lock = 0 /\ threads = <<>>

NoFile == file = <<>> /\ calls = <<>>

NoOthers == NoBackend /\ NoApi /\ NoEnv /\ NoFile

\* no run of run_sendmail: no arguments, nothing sent, no exit code
NoRun ==
    /\ cli = [valid |-> FALSE]
    /\ lettre = <<>>
    /\ recipients = <<>>
    /\ envelope_from = <<>>
    /\ sends = <<>>
    /\ exit = -1
    /\ made = {}
    /\ consulted = <<>>
    /\ lettre_from = <<>>

NoResult == [ok |-> FALSE, val |-> <<>>]

\* all strings over the alphabet A of length at most n
Strings(A, n) == UNION {[1..k -> A] : k \in 0..n}

\* the inputs pre \o mid \o suf, mid a string over A of length at most n
Framed(Pre, A, n, Suf) ==
    {pre \o mid \o suf : pre \in Pre, mid \in Strings(A, n), suf \in Suf}

\* s with m inserted after its first k characters
Insert(s, k, m) == SubSeq(s, 1, k) \o m \o SubSeq(s, k + 1, Len(s))

Start(Inputs) ==
    /\ input \in Inputs
    /\ result = NoResult
    /\ second = NoResult
    /\ pc = "init"
    /\ email = <<>>
    /\ headers = <<>>
    /\ NoRun
    /\ NoOthers

\* the caller hands `input` to parse_email_address
Parse ==
    /\ pc = "init"
    /\ result' = parse_email_address(input)
    /\ pc' = "parsed"
    /\ UNCHANGED <<input, second, email, headers, rvars, wvars>>

\* the caller parses the normalized address it was given
Reparse ==
    /\ pc = "parsed"
    /\ result.ok
    /\ second' = parse_email_address(result.val)
    /\ pc' = "reparsed"
    /\ UNCHANGED <<input, result, email, headers, rvars, wvars>>

Next == Parse \/ Reparse

StartHeaders(Emails) ==
    /\ email \in Emails
    /\ headers = <<>>
    /\ pc = "raw"
    /\ input = <<>>
    /\ result = NoResult
    /\ second = NoResult
    /\ NoRun
    /\ NoOthers

\* the caller hands `email` to parse_email_headers
ParseHeaders ==
    /\ pc = "raw"
    /\ headers' = parse_email_headers(email)
    /\ pc' = "unfolded"
    /\ UNCHANGED <<input, result, second, email, rvars, wvars>>

NextHeaders == ParseHeaders

\* ---------------------------------------------------------------------
\* lib.rs: run_sendmail, with the parser.rs helpers it calls
\* ---------------------------------------------------------------------

\* u8::to_ascii_lowercase
to_ascii_lowercase(c) == IF c \in 65..90 THEN c + 32 ELSE c

\* str::eq_ignore_ascii_case
eq_ignore_ascii_case(a, b) ==
    /\ Len(a) = Len(b)
    /\ \A i \in 1..Len(a) : to_ascii_lowercase(a[i]) = to_ascii_lowercase(b[i])

\* the positions of the fields called `name`, in order: the filter of
\* header_values
header_positions(hs, name) ==
    SelectSeq([i \in 1..Len(hs) |-> i], LAMBDA i : eq_ignore_ascii_case(hs[i].name, name))

\* header_values: the values of the fields called `name`, in order
header_values(hs, name) ==
    LET sel == header_positions(hs, name)
    IN  [i \in 1..Len(sel) |-> hs[sel[i]].value]

\* the header names run_sendmail reads
NameTo == <<84, 111>>
NameCc == <<67, 99>>
NameBcc == <<66, 99, 99>>
NameFrom == <<70, 114, 111, 109>>

\* the values run_sendmail hands to parse_mailboxes_header with -t, in
\* the order of its two loops: To, then Cc, then Bcc
recipient_values(hs) ==
    header_values(hs, NameTo) \o header_values(hs, NameCc) \o header_values(hs, NameBcc)

\* the header fields in the order of cc then to then bcc
recipient_positions_cc_first(hs) ==
    header_positions(hs, NameCc) \o header_positions(hs, NameTo) \o header_positions(hs, NameBcc)

\* the positions of the fields whose values recipient_values gives
recipient_positions(hs) ==
    header_positions(hs, NameTo) \o header_positions(hs, NameCc) \o header_positions(hs, NameBcc)

\* the number of values handed to parse_mailboxes_header: all of them,
\* or those up to the first that fails
RECURSIVE parsed_count(_, _)
parsed_count(os, i) ==
    IF i > Len(os) THEN Len(os)
    ELSE IF os[i].ok THEN parsed_count(os, i + 1)
    ELSE i

RECURSIVE collect_recipients(_, _, _)

\* a failing recipient header is skipped instead of ending the run
collect_recipients_skip_errors(os, i, acc) ==
    LET ok == SelectSeq(os, LAMBDA o : o.ok)
        F[k \in 0..Len(ok)] == IF k = 0 THEN <<>> ELSE F[k - 1] \o ok[k].addrs
    IN  [ok |-> TRUE, addrs |-> F[Len(ok)]]

\* the -t loops: each Ok(list) extends the recipients, the first Err
\* returns; os[i] is what parse_mailboxes_header answers for value i
collect_recipients(os, i, acc) ==
    IF i > Len(os) THEN [ok |-> TRUE, addrs |-> acc]
    ELSE IF os[i].ok THEN collect_recipients(os, i + 1, acc \o os[i].addrs)
    ELSE [ok |-> FALSE, addrs |-> <<>>]

\* the validators an address text goes through before it becomes a value
ByEmailAddress == "email_address::EmailAddress::from_str"
ByLettre == "lettre::Address::from_str"
ByGrammar == "email_parser::parse_email_address"

\* parser::parse_email_address, parse_mailboxes_header and
\* parse_mailbox_header build their values with EmailAddress::from_str
ValuesFromStr(site, addrs) ==
    {[site |-> site, by |-> ByEmailAddress, text |-> addrs[i]] : i \in 1..Len(addrs)}

\* args.rs: parse_email, the clap value parser of -f and of the recipients
ValuesFromArgs(site, addrs) ==
    {[site |-> site, by |-> ByLettre, text |-> addrs[i]] : i \in 1..Len(addrs)}

\* "nobody@localhost"
NobodyAtLocalhost ==
    <<110, 111, 98, 111, 100, 121, 64, 108, 111, 99, 97, 108, 104, 111, 115, 116>>

AddrPlain == <<LetterA, AT, LetterA>>

AddrOther == <<LetterA, AT, LetterA, DOT, LetterA>>

\* what the mailbox-list and mailbox parsers of lettre can answer for a
\* header value: an error, or a list of addresses
Err == [ok |-> FALSE, addrs |-> <<>>]

Outcomes ==
    {Err} \cup {[ok |-> TRUE, addrs |-> a] :
                   a \in {<<>>, <<AddrPlain>>, <<AddrOther>>, <<AddrOther, AddrPlain>>}}

\* the command lines: one clap rejects, and every combination of -t, -f
\* and a recipient
CommandLines ==
    {[valid |-> FALSE]} \cup
    {[valid |-> TRUE, t |-> t, from |-> f, recipients |-> r, fullname |-> <<>>] :
        t \in BOOLEAN, f \in {<<>>, <<AddrOther>>}, r \in {<<>>, <<AddrPlain>>}}

StartRunWith(Clis, Emails) ==
    /\ cli \in Clis
    /\ email \in Emails
    /\ pc = "args"
    /\ headers = <<>>
    /\ lettre = <<>>
    /\ recipients = <<>>
    /\ envelope_from = <<>>
    /\ sends = <<>>
    /\ exit = -1
    /\ made = {}
    /\ consulted = <<>>
    /\ lettre_from = <<>>
    /\ input = <<>>
    /\ result = NoResult
    /\ second = NoResult
    /\ NoOthers

StartRun(Emails) == StartRunWith(CommandLines, Emails)

\* SendmailArgs::try_parse_from: a rejected command line returns 1
ParseArgs ==
    /\ pc = "args"
    /\ IF cli.valid
       THEN /\ pc' = "stdin"
            /\ made' = ValuesFromArgs("cli from", cli.from)
                           \cup ValuesFromArgs("cli recipient", cli.recipients)
            /\ UNCHANGED exit
       ELSE /\ pc' = "done"
            /\ exit' = 1
            /\ UNCHANGED made
    /\ UNCHANGED <<input, result, second, email, headers, cli, lettre, recipients,
                   envelope_from, sends, consulted, lettre_from, wvars>>

\* read_to_string on stdin, then parse_email_headers; a read error
\* returns 1
ReadStdin ==
    /\ pc = "stdin"
    /\ \E read_ok \in BOOLEAN :
           IF read_ok
           THEN /\ headers' = parse_email_headers(email)
                /\ pc' = "recipients"
                /\ UNCHANGED exit
           ELSE /\ pc' = "done"
                /\ exit' = 1
                /\ UNCHANGED headers
    /\ UNCHANGED <<input, result, second, email, cli, lettre, recipients,
                   envelope_from, sends, made, consulted, lettre_from, wvars>>

\* the recipients: with -t from the To, Cc and Bcc values, a value that
\* fails to parse returning 1; otherwise from the command line
ResolveRecipients ==
    /\ pc = "recipients"
    /\ IF cli.t
       THEN \E os \in [1..Len(recipient_values(headers)) -> Outcomes] :
                LET r == collect_recipients(os, 1, <<>>)
                IN  /\ lettre' = os
                    /\ consulted' = SubSeq(recipient_positions(headers), 1, parsed_count(os, 1))
                    /\ IF r.ok
                       THEN /\ recipients' = r.addrs
                            /\ made' = made \cup ValuesFromStr("header recipient", r.addrs)
                            /\ pc' = "check"
                            /\ UNCHANGED exit
                       ELSE /\ pc' = "done"
                            /\ exit' = 1
                            /\ UNCHANGED <<recipients, made>>
       ELSE /\ recipients' = cli.recipients
            /\ pc' = "check"
            /\ UNCHANGED <<lettre, made, exit, consulted>>
    /\ UNCHANGED <<input, result, second, email, headers, cli, envelope_from, sends,
                   lettre_from, wvars>>

\* `recipients.is_empty() && !cli_args.read_recipients_from_headers`
no_recipients_error(rs, t) == rs = <<>> /\ ~t

CheckRecipients ==
    /\ pc = "check"
    /\ IF no_recipients_error(recipients, cli.t)
       THEN pc' = "done" /\ exit' = 1
       ELSE pc' = "sender" /\ UNCHANGED exit
    /\ UNCHANGED <<input, result, second, email, headers, cli, lettre, recipients,
                   envelope_from, sends, made, consulted, lettre_from, wvars>>

\* the first From header that parses to an address is taken
first_parsable_from(fs) ==
    LET good == SelectSeq(fs, LAMBDA o : o.ok /\ o.addrs # <<>>)
    IN  IF good = <<>> THEN <<>> ELSE <<good[1].addrs[1]>>

\* header_from: the first From value through parse_mailbox_header, an
\* error or an empty list giving None; fs[i] is what lettre answers for
\* the i-th From value
first_from(fs) ==
    IF fs # <<>> /\ fs[1].ok /\ fs[1].addrs # <<>> THEN <<fs[1].addrs[1]>> ELSE <<>>

\* the From header is preferred to -f
envelope_sender_header_first(cli_from, header_from) ==
    IF header_from # <<>> THEN header_from[1]
    ELSE IF cli_from # <<>> THEN cli_from[1]
    ELSE NobodyAtLocalhost

\* cli_args.from.or(header_from).unwrap_or_else(nobody@localhost)
envelope_sender(cli_from, header_from) ==
    IF cli_from # <<>> THEN cli_from[1]
    ELSE IF header_from # <<>> THEN header_from[1]
    ELSE NobodyAtLocalhost

\* the envelope sender: -f, else the first From header when it parses
\* to a mailbox, else nobody@localhost
ResolveSender ==
    /\ pc = "sender"
    /\ \E fs \in [1..Len(header_values(headers, NameFrom)) -> Outcomes] :
           LET header_from == first_from(fs)
           IN  /\ lettre_from' = fs
               /\ envelope_from' = envelope_sender(cli.from, header_from)
               /\ made' = made \cup ValuesFromStr("header from", header_from)
                            \cup IF cli.from = <<>> /\ header_from = <<>>
                                 THEN ValuesFromStr("default from", <<NobodyAtLocalhost>>)
                                 ELSE {}
    /\ pc' = "send"
    /\ UNCHANGED <<input, result, second, email, headers, cli, lettre, recipients,
                   sends, exit, consulted, wvars>>

\* "From: ", "Date: " and "Message-ID: "
FromPrefix == NameFrom \o <<COLON, SP>>

NameDate == <<68, 97, 116, 101>>

DatePrefix == NameDate \o <<COLON, SP>>

NameMessageID == <<77, 101, 115, 115, 97, 103, 101, 45, 73, 68>>

MessageIDPrefix == NameMessageID \o <<COLON, SP>>

LANGLE == 60

RANGLE == 62

\* name.replace('\\', "\\\\").replace('"', "\\\"")
RECURSIVE escape_name(_, _)
escape_name(name, i) ==
    IF i > Len(name) THEN <<>>
    ELSE (IF name[i] \in {BACKSLASH, DQUOTE} THEN <<BACKSLASH, name[i]>> ELSE <<name[i]>>)
             \o escape_name(name, i + 1)

\* EmailAddress::domain: the text after the last "@"
address_domain(addr) ==
    LET ats == {i \in 1..Len(addr) : addr[i] = AT}
        last == CHOOSE i \in ats : \A j \in ats : j <= i
    IN  SubSeq(addr, last + 1, Len(addr))

\* the values format_rfc5322_date and Uuid::new_v4 can give
Clock == {<<LetterA>>, <<LetterA, LetterA>>}

Uuids == {<<LetterA, DOT, LetterA>>}

\* the name is compared as written
has_header_case_sensitive(hs, name) == \E i \in 1..Len(hs) : hs[i].name = name

\* has_header
has_header(hs, name) == \E i \in 1..Len(hs) : eq_ignore_ascii_case(hs[i].name, name)

\* generate_missing_headers: the From, Date and Message-ID lines for
\* the names no header field carries
generate_missing_headers(hs, from, fullname, date, uuid) ==
    (IF has_header(hs, NameFrom) THEN <<>>
     ELSE IF fullname # <<>>
     THEN <<FromPrefix \o <<DQUOTE>> \o escape_name(fullname[1], 1)
                \o <<DQUOTE, SP, LANGLE>> \o from \o <<RANGLE>> >>
     ELSE <<FromPrefix \o from>>)
    \o (IF has_header(hs, NameDate) THEN <<>> ELSE <<DatePrefix \o date>>)
    \o (IF has_header(hs, NameMessageID) THEN <<>>
        ELSE <<MessageIDPrefix \o <<LANGLE>> \o uuid \o <<AT>> \o address_domain(from) \o <<RANGLE>> >>)

\* headers.join("\r\n") + "\r\n"
RECURSIVE join_crlf(_, _)
join_crlf(ls, i) ==
    IF i > Len(ls) THEN <<>> ELSE ls[i] \o <<CR, LF>> \o join_crlf(ls, i + 1)

\* prepend_headers
prepend_headers(raw_email, hs) ==
    IF hs = <<>> THEN raw_email ELSE join_crlf(hs, 1) \o raw_email

\* the missing headers are put before the message, then backend.send:
\* Ok(()) returns 0, an error returns 1
Send ==
    /\ pc = "send"
    /\ \E date \in Clock, uuid \in Uuids :
           LET missing_headers ==
                   generate_missing_headers(headers, envelope_from, cli.fullname, date, uuid)
           IN  sends' = Append(sends, [from |-> envelope_from, to |-> recipients,
                                       raw |-> prepend_headers(email, missing_headers)])
    /\ \E sent \in BOOLEAN : exit' = IF sent THEN 0 ELSE 1
    /\ pc' = "done"
    /\ UNCHANGED <<input, result, second, email, headers, cli, lettre, recipients,
                   envelope_from, made, consulted, lettre_from, wvars>>

NextRun ==
    \/ ParseArgs
    \/ ReadStdin
    \/ ResolveRecipients
    \/ CheckRecipients
    \/ ResolveSender
    \/ Send

\* ---------------------------------------------------------------------
\* backend/mod.rs: create_from_config
\* ---------------------------------------------------------------------

\* an Option that is None
None == <<>>

\* Some(v)
Some(v) == <<v>>

\* the SMTP relay is tried before the file backend
create_from_config_smtp_first(c, file_new_ok, sender_valid) ==
    IF c.relay_host # None
    THEN IF (c.relay_user # None) # (c.relay_pass # None)
         THEN [ok |-> FALSE, err |-> "OnlyUsernameOrPasswordProvided"]
         ELSE [ok |-> TRUE, backend |-> "smtp"]
    ELSE IF c.file_path # None
    THEN IF file_new_ok THEN [ok |-> TRUE, backend |-> "file"]
         ELSE [ok |-> FALSE, err |-> "FileBackend::new"]
    ELSE [ok |-> FALSE, err |-> "NoBackendConfigured"]

\* create_from_config; file_new_ok is whether FileBackend::new finds the
\* parent directory and a file name, sender_valid whether
\* EmailAddress::from_str accepts the API sender
create_from_config(c, file_new_ok, sender_valid) ==
    IF c.file_path # None
    THEN IF file_new_ok THEN [ok |-> TRUE, backend |-> "file"]
         ELSE [ok |-> FALSE, err |-> "FileBackend::new"]
    ELSE IF c.relay_host # None
    THEN IF (c.relay_user # None) # (c.relay_pass # None)
         THEN [ok |-> FALSE, err |-> "OnlyUsernameOrPasswordProvided"]
         ELSE [ok |-> TRUE, backend |-> "smtp"]
    ELSE IF c.api_url # None \/ c.api_sender # None \/ c.api_token # None
    THEN IF c.api_url = None \/ c.api_sender = None \/ c.api_token = None
         THEN [ok |-> FALSE, err |-> "ApiConfigIncomplete"]
         ELSE IF ~sender_valid
         THEN [ok |-> FALSE, err |-> "ApiInvalidEmailAddress"]
         ELSE [ok |-> TRUE, backend |-> "api"]
    ELSE [ok |-> FALSE, err |-> "NoBackendConfigured"]

\* the settings of the three backends, each set or not; `backend` is a
\* SENDMAIL_BACKEND value of the environment, which BackendConfig has no
\* field for; file_new_ok and sender_valid are the answers of the file
\* system and of the address validator for the values given
Configs ==
    [file_path : {None, Some("path")},
     relay_host : {None, Some("host")},
     relay_user : {None, Some("user")},
     relay_pass : {None, Some("pass")},
     api_url : {None, Some("url")},
     api_sender : {None, Some("sender")},
     api_token : {None, Some("token")},
     backend : {None, Some("evil")},
     file_new_ok : BOOLEAN,
     sender_valid : BOOLEAN]

StartBackend ==
    /\ config \in Configs
    /\ created = <<>>
    /\ pc = "config"
    /\ input = <<>>
    /\ result = NoResult
    /\ second = NoResult
    /\ email = <<>>
    /\ headers = <<>>
    /\ NoRun
    /\ NoApi
    /\ NoEnv
    /\ NoFile

CreateFromConfig ==
    /\ pc = "config"
    /\ created' = create_from_config(config, config.file_new_ok, config.sender_valid)
    /\ pc' = "created"
    /\ UNCHANGED <<input, result, second, email, headers, rvars, config, pvars, evars, fvars>>

NextBackend == CreateFromConfig

\* ---------------------------------------------------------------------
\* backend/api.rs: ApiBackend::send
\* ---------------------------------------------------------------------

\* the limit of `body.len() <= 100` and `body[..100]`
ErrorMessageLimit == 100

\* char::len_utf8
len_utf8(c) == IF c < 128 THEN 1 ELSE IF c < 2048 THEN 2 ELSE IF c < 65536 THEN 3 ELSE 4

\* the number of bytes of the first k characters of s
RECURSIVE bytes_before(_, _)
bytes_before(s, k) == IF k = 0 THEN 0 ELSE bytes_before(s, k - 1) + len_utf8(s[k])

\* String::len: the length in bytes
byte_len(s) == bytes_before(s, Len(s))

\* str::is_char_boundary(n) for n below the length
is_char_boundary(s, n) == \E k \in 0..Len(s) : bytes_before(s, k) = n

\* the reply of a send: Ok(()), an error with its status and message, or
\* a panic
ReplyOk == [kind |-> "Ok", err |-> "", status |-> 0, msg |-> <<>>]

ReplyErr(e, st, m) == [kind |-> "Err", err |-> e, status |-> st, msg |-> m]

ReplyPanic == [kind |-> "panic", err |-> "", status |-> 0, msg |-> <<>>]

\* error_msg: the body when it has at most 100 bytes, else body[..100],
\* which panics when byte 100 is not a character boundary
error_msg(body) ==
    IF byte_len(body) <= ErrorMessageLimit THEN [ok |-> TRUE, msg |-> body]
    ELSE IF is_char_boundary(body, ErrorMessageLimit)
    THEN [ok |-> TRUE,
          msg |-> SubSeq(body, 1, CHOOSE k \in 0..Len(body) :
                                      bytes_before(body, k) = ErrorMessageLimit)]
    ELSE [ok |-> FALSE, msg |-> <<>>]

\* the texts used when the body cannot be read
DefaultBody(status) ==
    IF status = 400 THEN <<73, 110, 118, 97, 108, 105, 100, 32, 114, 101, 113, 117, 101, 115, 116>>
    ELSE IF status = 401 THEN <<85, 110, 97, 117, 116, 104, 111, 114, 105, 122, 101, 100>>
    ELSE IF status = 402 THEN <<81, 117, 111, 116, 97, 32, 101, 120, 99, 101, 101, 100, 101, 100>>
    ELSE IF status = 403 THEN <<70, 111, 114, 98, 105, 100, 100, 101, 110>>
    ELSE IF status = 413 THEN <<77, 101, 115, 115, 97, 103, 101, 32, 116, 111, 111, 32, 108, 97, 114, 103, 101>>
    ELSE IF status \in 500..599 THEN <<83, 101, 114, 118, 101, 114, 32, 101, 114, 114, 111, 114>>
    ELSE <<85, 110, 101, 120, 112, 101, 99, 116, 101, 100, 32, 101, 114, 114, 111, 114>>

\* the error of a status other than 202
status_error(status) ==
    IF status = 400 THEN "ApiBadRequest"
    ELSE IF status = 401 THEN "ApiUnauthorized"
    ELSE IF status = 402 THEN "ApiQuotaExceeded"
    ELSE IF status = 403 THEN "ApiForbidden"
    ELSE IF status = 413 THEN "ApiMessageTooLarge"
    ELSE IF status \in 500..599 THEN "ApiServerError"
    ELSE "ApiUnexpectedStatus"

\* the status carried by the error
carried_status(status) ==
    IF status \in {400, 401, 402, 403, 413} THEN 0 ELSE status

\* ApiBackend::send for a request r: its url and recipient list empty or
\* not, whether the HTTP exchange gave a response, the status and body of
\* the response and whether the body can be read
api_send(r) ==
    IF r.url_empty THEN ReplyErr("ApiUrlNotProvided", 0, <<>>)
    ELSE IF r.to_empty THEN ReplyOk
    ELSE IF ~r.net_ok THEN ReplyErr("NetworkError", 0, <<>>)
    ELSE IF r.status = 202 THEN ReplyOk
    ELSE LET m == error_msg(IF r.text_ok THEN r.body ELSE DefaultBody(r.status))
         IN  IF m.ok THEN ReplyErr(status_error(r.status), carried_status(r.status), m.msg)
             ELSE ReplyPanic

CallApi ==
    /\ pc = "request"
    /\ reply' = api_send(response)
    /\ pc' = "replied"
    /\ UNCHANGED <<input, result, second, email, headers, rvars, bvars, response, evars, fvars>>

NextApi == CallApi

\* ---------------------------------------------------------------------
\* args.rs: parse_cli_args, PARSER_MUTEX and the process environment
\* ---------------------------------------------------------------------

\* a value of the environment that is not valid Unicode
NotUnicode == "not-unicode"

\* std::env::var(key).ok(): None for an unset variable and for a value
\* that is not valid Unicode
env_var(e, key) == IF e[key] = Some(NotUnicode) THEN None ELSE e[key]

\* `for (key, value) in restored_envs`: the j-th entry restored is the j-th
\* entry pushed
restore_index(n, j) == j

\* PARSER_MUTEX.lock(): the call enters when no other call holds the mutex
LockMutex(t) ==
    /\ threads[t].pc = "start"
    /\ lock = 0
    /\ lock' = t
    /\ threads' = [threads EXCEPT ![t].pc = "set", ![t].entry = env]
    /\ UNCHANGED env

\* one round of the first loop: the previous value is remembered and the
\* variable is set
SetVar(t) ==
    /\ threads[t].pc = "set"
    /\ threads[t].i <= Len(threads[t].envs)
    /\ LET kv == threads[t].envs[threads[t].i]
       IN  /\ env' = [env EXCEPT ![kv[1]] = Some(kv[2])]
           /\ threads' = [threads EXCEPT
                             ![t].restored = Append(@, <<kv[1], env_var(env, kv[1])>>),
                             ![t].i = @ + 1]
    /\ UNCHANGED lock

\* SendmailArgs::try_parse_from reads the environment as it is now and
\* gives arguments or an error
ParseFromEnv(t) ==
    /\ threads[t].pc = "set"
    /\ threads[t].i > Len(threads[t].envs)
    /\ \E ok \in BOOLEAN :
           threads' = [threads EXCEPT ![t].pc = "restore", ![t].parsed = env,
                                      ![t].ok = ok, ![t].i = 1]
    /\ UNCHANGED <<env, lock>>

\* one round of the second loop: the variable is set to its remembered
\* value, or removed when there was none
RestoreVar(t) ==
    /\ threads[t].pc = "restore"
    /\ threads[t].i <= Len(threads[t].restored)
    /\ LET kv == threads[t].restored[restore_index(Len(threads[t].restored), threads[t].i)]
       IN  env' = [env EXCEPT ![kv[1]] = kv[2]]
    /\ threads' = [threads EXCEPT ![t].i = @ + 1]
    /\ UNCHANGED lock

\* the call returns and the guard is dropped
ReturnParsed(t) ==
    /\ threads[t].pc = "restore"
    /\ threads[t].i > Len(threads[t].restored)
    /\ lock = t
    /\ lock' = 0
    /\ threads' = [threads EXCEPT ![t].pc = "done", ![t].left = env]
    /\ UNCHANGED env

Tids == {1, 2}

NextEnv ==
    \E t \in Tids :
        /\ \/ LockMutex(t)
           \/ SetVar(t)
           \/ ParseFromEnv(t)
           \/ RestoreVar(t)
           \/ ReturnParsed(t)
        /\ UNCHANGED <<input, result, second, pc, email, headers, rvars, bvars, pvars, fvars>>

\* ---------------------------------------------------------------------
\* backend/file.rs: FileBackend::send
\* ---------------------------------------------------------------------

\* "Envelope-From: ", "Envelope-To: " and "---"
EnvelopeFromPrefix == <<69, 110, 118, 101, 108, 111, 112, 101, 45, 70, 114, 111, 109, 58, 32>>

EnvelopeToPrefix == <<69, 110, 118, 101, 108, 111, 112, 101, 45, 84, 111, 58, 32>>

Separator == <<45, 45, 45>>

\* envelope_to joined with ", "
RECURSIVE join_recipients(_, _)
join_recipients(to, i) ==
    IF i > Len(to) THEN <<>>
    ELSE IF i = Len(to) THEN to[i]
    ELSE to[i] \o <<44, SP>> \o join_recipients(to, i + 1)

\* the five writeln! of a send, in order
record_lines(from, to, raw) ==
    << EnvelopeFromPrefix \o from,
       EnvelopeToPrefix \o join_recipients(to, 1),
       Separator,
       raw,
       Separator >>

\* the first n of the lines ls, each followed by "\n"
RECURSIVE written_lines(_, _, _)
written_lines(ls, n, i) ==
    IF i > n THEN <<>> ELSE ls[i] \o <<LF>> \o written_lines(ls, n, i + 1)

\* the file is opened without append: the writes replace its content
write_truncating(content, text) == text

\* OpenOptions::new().append(true): every write goes to the end of the file
write_appending(content, text) == content \o text

\* the number of sends made to the backend in a run of the model
MaxSends == 2

\* one send: the open can fail, and so can any writeln!, after which
\* the lines written before it stay in the file; `written` is the number
\* of lines written, 5 when the send returns Ok(())
FileSend ==
    /\ pc = "file"
    /\ Len(calls) < MaxSends
    /\ \E from \in {AddrPlain, AddrOther},
          to \in {<<>>, <<AddrPlain>>, <<AddrOther, AddrPlain>>},
          raw \in {<<LetterA>>, <<LetterA, COLON, LetterA, LF, LF, LetterA, LF>>},
          written \in {0, 2, 5} :
           /\ file' = write_appending(file, written_lines(record_lines(from, to, raw), written, 1))
           /\ calls' = Append(calls, [from |-> from, to |-> to, raw |-> raw,
                                      written |-> written, ok |-> written = 5])
    /\ UNCHANGED <<input, result, second, pc, email, headers, rvars, bvars, pvars, evars>>

NextFile == FileSend

(***************************************************************************)
(* The grammar of spec.md section 4.2, as recognizers of whole strings.    *)
(* The claims are stated against these, not against the parsers above.     *)
(***************************************************************************)
IsWs(c) == c \in {SP, HTAB, CR, LF}

IsVcharOrWsp(c) == c \in {SP, HTAB} \/ (c >= 33 /\ c <= 126)

\* every CR of f starts a CR LF WSP, and every LF follows a CR
FoldsWellFormed(f) ==
    \A i \in 1..Len(f) :
        /\ f[i] = CR => i + 2 <= Len(f) /\ f[i + 1] = LF /\ f[i + 2] \in {SP, HTAB}
        /\ f[i] = LF => i > 1 /\ f[i - 1] = CR

\* FWS = (optional WSP, CRLF, 1+WSP) | (1+WSP, zero or more (CRLF, 1+WSP))
IsFWS(f) ==
    /\ f # <<>>
    /\ \A i \in 1..Len(f) : IsWs(f[i])
    /\ FoldsWellFormed(f)
    /\ \/ f[1] \in {SP, HTAB}
       \/ Cardinality({i \in 1..Len(f) : f[i] = CR}) = 1

RECURSIVE WsRunEnd(_, _)
\* the index after the maximal run of SP, HTAB, CR, LF that starts at index i
WsRunEnd(t, i) == IF i <= Len(t) /\ IsWs(t[i]) THEN WsRunEnd(t, i + 1) ELSE i

RECURSIVE CfwsFrom(_, _, _, _)
\* t from index i on is FWS and comments, read at comment depth d (n comments
\* closed so far), and ends at depth 0
CfwsFrom(t, i, d, n) ==
    IF i > Len(t) THEN d = 0
    ELSE IF IsWs(t[i])
         THEN /\ IsFWS(SubSeq(t, i, WsRunEnd(t, i) - 1))
              /\ CfwsFrom(t, WsRunEnd(t, i), d, n)
    ELSE IF t[i] = LPAREN THEN CfwsFrom(t, i + 1, d + 1, n)
    ELSE IF d = 0 THEN FALSE
    ELSE IF t[i] = RPAREN THEN CfwsFrom(t, i + 1, d - 1, n + 1)
    ELSE IF t[i] = BACKSLASH
         THEN /\ i < Len(t)
              /\ IsVcharOrWsp(t[i + 1])
              /\ CfwsFrom(t, i + 2, d, n)
    ELSE t[i] >= 33 /\ t[i] <= 126 /\ CfwsFrom(t, i + 1, d, n)

\* CFWS = ( [FWS] comment )+ [FWS]  |  FWS
IsCFWS(t) == t # <<>> /\ CfwsFrom(t, 1, 0, 0)

Prefix(s, k) == SubSeq(s, 1, k)

Suffix(s, k) == SubSeq(s, k + 1, Len(s))

Contains(s, c) == \E i \in 1..Len(s) : s[i] = c

(***************************************************************************)
(* C1: trailing content.                                                   *)
(***************************************************************************)
MaxTail == 4

AddrQuotedLiteral == <<DQUOTE, LetterA, DQUOTE, AT, LBRACKET, LetterA, RBRACKET>>

TailAlphabet == {SP, CR, LF, LPAREN, RPAREN, LetterA, AT, DOT}

InputsTrailing == Framed({AddrPlain, AddrQuotedLiteral}, TailAlphabet, MaxTail, {<<>>})

SpecTrailing == Start(InputsTrailing) /\ [][Next]_vars

\* C1: parse_email_address succeeds only if the whole input is consumed: when
\* the addr-spec parser stops before the end of the input the parse fails, and
\* when an accepted address is followed by CFWS only (whitespace, folds and
\* balanced comments) the parse succeeds with the same normalized result.
C1_TrailingContent ==
    pc # "init" =>
        /\ LET r == addr_spec_parser_internal(input, 0)
           IN  r.ok /\ r.pos < Len(input) => ~result.ok
        /\ \A k \in 1..Len(input) :
               parse_email_address(Prefix(input, k)).ok /\ IsCFWS(Suffix(input, k))
                   => result = parse_email_address(Prefix(input, k))

(***************************************************************************)
(* Input families shared by the claims below.                              *)
(***************************************************************************)
MaxQContent == 4

MaxDContent == 4

MaxWords == 3

Accepted(s) == [ok |-> TRUE, val |-> s]

QuotedAlphabet == {LetterA, SP, HTAB, CR, LF, BACKSLASH, DQUOTE}

QuotedOpen == <<DQUOTE>>

QuotedClose == <<DQUOTE, AT, LetterA>>

\* "<content>"@a
InputsQuoted == Framed({QuotedOpen}, QuotedAlphabet, MaxQContent, {QuotedClose})

LiteralAlphabet == {LetterA, SP, HTAB, CR, LF, BACKSLASH, LBRACKET, RBRACKET}

LiteralOpen == <<LetterA, AT, LBRACKET>>

LiteralClose == <<RBRACKET>>

\* a@[<content>]
InputsLiteral == Framed({LiteralOpen}, LiteralAlphabet, MaxDContent, {LiteralClose})

\* words of an obs-local-part as written (raw) and with their CFWS removed
Words ==
    { [raw |-> <<LetterA>>, norm |-> <<LetterA>>],
      [raw |-> <<LetterA, SP>>, norm |-> <<LetterA>>],
      [raw |-> <<SP, LetterA>>, norm |-> <<LetterA>>],
      [raw |-> <<LetterA, LPAREN, LetterA, RPAREN>>, norm |-> <<LetterA>>],
      [raw |-> <<LPAREN, LetterA, RPAREN, LetterA>>, norm |-> <<LetterA>>],
      [raw |-> <<DQUOTE, LetterA, DQUOTE>>, norm |-> <<DQUOTE, LetterA, DQUOTE>>],
      [raw |-> <<DQUOTE, LetterA, DQUOTE, SP>>, norm |-> <<DQUOTE, LetterA, DQUOTE>>],
      [raw |-> <<LPAREN, LetterA, RPAREN, DQUOTE, LetterA, DQUOTE>>,
       norm |-> <<DQUOTE, LetterA, DQUOTE>>],
      [raw |-> <<DQUOTE, SP, LetterA, DQUOTE>>, norm |-> <<DQUOTE, SP, LetterA, DQUOTE>>] }

WordSeqs == UNION {[1..k -> Words] : k \in 1..MaxWords}

RECURSIVE JoinDots(_, _, _)
\* the field f of the words ws[i..], joined by "."
JoinDots(ws, i, f) ==
    IF i > Len(ws) THEN <<>>
    ELSE IF i = Len(ws) THEN ws[i][f]
    ELSE ws[i][f] \o <<DOT>> \o JoinDots(ws, i + 1, f)

AtDomain == <<AT, LetterA>>

\* word.word.word@a
InputsWords == {JoinDots(ws, 1, "raw") \o AtDomain : ws \in WordSeqs}

(***************************************************************************)
(* C2: idempotence.                                                        *)
(***************************************************************************)
InputsIdempotence == InputsQuoted \cup InputsLiteral \cup InputsWords \cup InputsTrailing

Spec == Start(InputsIdempotence) /\ [][Next]_vars

\* C2: idempotence of normalization: when parse_email_address accepts an
\* input with normalized output n, parsing n succeeds and returns exactly n.
C2_Idempotent ==
    pc = "reparsed" => second.ok /\ second.val = result.val

\* a quoted-string output with a preserved tab that differs from its input
C2_Witness ==
    /\ pc = "reparsed"
    /\ result.val # input
    /\ Contains(result.val, HTAB)
    /\ second = result

(***************************************************************************)
(* C3: folding whitespace outside quoted material.                         *)
(***************************************************************************)
MaxFold == 5

WsAlphabet == {SP, HTAB, CR, LF}

\* a@a with one run of whitespace before, inside or after it
InputsFold ==
    {Insert(AddrPlain, k, f) : k \in 0..Len(AddrPlain), f \in Strings(WsAlphabet, MaxFold)}

SpecFold == Start(InputsFold) /\ [][Next]_vars

NotWs(c) == ~IsWs(c)

\* C3: at every position where CFWS is permitted, a run of whitespace that is
\* FWS ('WSP* CRLF WSP+', also when it starts directly with CRLF, or
\* 'WSP+ (CRLF WSP+)*') is accepted and removed from the output, and a CRLF
\* that is not followed by a space or tab is rejected.
C3_FoldingWhitespace ==
    pc # "init" /\ SelectSeq(input, NotWs) = AddrPlain =>
        /\ IsFWS(SelectSeq(input, IsWs)) => result = Accepted(AddrPlain)
        /\ ~FoldsWellFormed(SelectSeq(input, IsWs)) => ~result.ok

(***************************************************************************)
(* C4: the obsolete local part.                                            *)
(***************************************************************************)
SpecWords == Start(InputsWords) /\ [][Next]_vars

\* C4: an input whose local part is word ("." word)*, each word an atom or a
\* quoted-string with its own leading and trailing CFWS, followed by "@" and a
\* valid domain, is accepted, and its normalized local part is the words
\* joined by "." with all CFWS removed.
C4_ObsLocalPart ==
    pc # "init" =>
        \A ws \in WordSeqs :
            input = JoinDots(ws, 1, "raw") \o AtDomain
                => result = Accepted(JoinDots(ws, 1, "norm") \o AtDomain)

(***************************************************************************)
(* C5, C6: whitespace inside quoted-strings and domain-literals.           *)
(***************************************************************************)
RECURSIVE Collapse(_, _)
\* c[i..] with every CR LF WSP+ replaced by one space; an escaped character
\* is copied with its backslash and never starts a fold
Collapse(c, i) ==
    IF i > Len(c) THEN <<>>
    ELSE IF c[i] = BACKSLASH /\ i < Len(c)
         THEN <<c[i], c[i + 1]>> \o Collapse(c, i + 2)
    ELSE IF c[i] = CR /\ i + 2 <= Len(c) /\ c[i + 1] = LF /\ c[i + 2] \in {SP, HTAB}
         THEN <<SP>> \o Collapse(c, WsRunEnd(c, i + 2))
    ELSE <<c[i]>> \o Collapse(c, i + 1)

RECURSIVE ContentWellFormed(_, _, _)
\* c[i..] is made of printable characters outside Closers, quoted-pairs,
\* spaces, tabs and CR LF WSP folds
ContentWellFormed(c, i, Closers) ==
    IF i > Len(c) THEN TRUE
    ELSE IF c[i] = BACKSLASH
         THEN /\ i < Len(c)
              /\ IsVcharOrWsp(c[i + 1])
              /\ ContentWellFormed(c, i + 2, Closers)
    ELSE IF c[i] = CR
         THEN /\ i + 2 <= Len(c)
              /\ c[i + 1] = LF
              /\ c[i + 2] \in {SP, HTAB}
              /\ ContentWellFormed(c, i + 3, Closers)
    ELSE /\ IsVcharOrWsp(c[i])
         /\ c[i] \notin Closers
         /\ ContentWellFormed(c, i + 1, Closers)

\* input is pre \o content \o suf
IsFramed(s, pre, suf) ==
    /\ Len(s) >= Len(pre) + Len(suf)
    /\ Prefix(s, Len(pre)) = pre
    /\ Suffix(s, Len(s) - Len(suf)) = suf

Content(s, pre, suf) == SubSeq(s, Len(pre) + 1, Len(s) - Len(suf))

SpecQuoted == Start(InputsQuoted) /\ [][Next]_vars

\* C5: for a quoted-string local part "content" the output is the content
\* with each CR LF WSP+ replaced by exactly one space and everything else
\* (spaces, tabs, qtext, quoted-pairs with their backslash) copied verbatim,
\* between the retained double quotes; well-formed content is accepted.
C5_QuotedStringNormalization ==
    pc # "init" /\ IsFramed(input, QuotedOpen, QuotedClose) =>
        LET c == Content(input, QuotedOpen, QuotedClose)
            expected == QuotedOpen \o Collapse(c, 1) \o QuotedClose
        IN  /\ result.ok => result.val = expected
            /\ ContentWellFormed(c, 1, {DQUOTE}) => result = Accepted(expected)

\* a tab directly after the opening quote is kept and the fold after it
\* becomes one space
C5_Witness ==
    /\ pc # "init"
    /\ IsFramed(input, QuotedOpen, QuotedClose)
    /\ Content(input, QuotedOpen, QuotedClose) = <<HTAB, CR, LF, HTAB>>
    /\ result = Accepted(QuotedOpen \o <<HTAB, SP>> \o QuotedClose)

SpecLiteral == Start(InputsLiteral) /\ [][Next]_vars

\* C6: for a domain-literal [content] the output is the content with each
\* CR LF WSP+ replaced by exactly one space and every other space or tab
\* (before the first dtext, between dtext runs, directly before "]") and
\* every quoted-pair copied verbatim, between the retained brackets.
C6_DomainLiteralNormalization ==
    pc # "init" /\ IsFramed(input, LiteralOpen, LiteralClose) /\ result.ok =>
        result.val = LiteralOpen
                        \o Collapse(Content(input, LiteralOpen, LiteralClose), 1)
                        \o LiteralClose

(***************************************************************************)
(* C7: comments.                                                           *)
(***************************************************************************)
MaxComment == 5

MaxNest == 8

AddrDotted == <<LetterA, AT, LetterA, DOT, LetterA>>

CommentAlphabet == {LPAREN, RPAREN, LetterA, SP, BACKSLASH}

\* a comment with an escaped ")" in it
CommentEscaped == <<LPAREN, BACKSLASH, RPAREN, RPAREN>>

CommentChoices == {<<>>, <<LPAREN, LetterA, RPAREN>>, CommentEscaped}

\* a@a.a with cs[k + 1] inserted after its k-th character
Interleave(cs) ==
    cs[1] \o <<LetterA>> \o cs[2] \o <<AT>> \o cs[3] \o <<LetterA>> \o cs[4]
          \o <<DOT>> \o cs[5] \o <<LetterA>> \o cs[6]

\* a@a.a with one piece of text at one of its six positions, the text being
\* arbitrary up to MaxComment or made of parentheses only up to MaxNest, and
\* a@a.a with a comment or nothing at each of its positions
InputsComment ==
    {Insert(AddrDotted, k, m) :
        k \in 0..Len(AddrDotted),
        m \in Strings(CommentAlphabet, MaxComment)
                \cup Strings({LPAREN, RPAREN}, MaxNest)}
        \cup {Interleave(cs) : cs \in [1..6 -> CommentChoices]}

SpecComment == Start(InputsComment) /\ [][Next]_vars

RECURSIVE DeleteComments(_, _, _)
\* t[i..] read at comment depth d, without its parenthesised comments
DeleteComments(t, i, d) ==
    IF i > Len(t) THEN <<>>
    ELSE IF d = 0
         THEN IF t[i] = LPAREN THEN DeleteComments(t, i + 1, 1)
              ELSE <<t[i]>> \o DeleteComments(t, i + 1, 0)
    ELSE IF t[i] = BACKSLASH THEN DeleteComments(t, i + 2, d)
    ELSE IF t[i] = LPAREN THEN DeleteComments(t, i + 1, d + 1)
    ELSE IF t[i] = RPAREN THEN DeleteComments(t, i + 1, d - 1)
    ELSE DeleteComments(t, i + 1, d)

RECURSIVE CommentsWellFormed(_, _, _)
\* every "(" of t[i..], read at depth d, opens a comment made of printable
\* characters, spaces, quoted-pairs and nested comments that is closed
CommentsWellFormed(t, i, d) ==
    IF i > Len(t) THEN d = 0
    ELSE IF t[i] = LPAREN THEN CommentsWellFormed(t, i + 1, d + 1)
    ELSE IF d = 0 THEN CommentsWellFormed(t, i + 1, 0)
    ELSE IF t[i] = RPAREN THEN CommentsWellFormed(t, i + 1, d - 1)
    ELSE IF t[i] = BACKSLASH
         THEN /\ i < Len(t)
              /\ IsVcharOrWsp(t[i + 1])
              /\ CommentsWellFormed(t, i + 2, d)
    ELSE IsVcharOrWsp(t[i]) /\ CommentsWellFormed(t, i + 1, d)

RECURSIVE Depth(_, _, _, _)
\* the deepest comment nesting of t[i..], read at depth d, deepest so far m
Depth(t, i, d, m) ==
    IF i > Len(t) THEN m
    ELSE IF t[i] = BACKSLASH /\ d > 0 THEN Depth(t, i + 2, d, m)
    ELSE IF t[i] = LPAREN THEN Depth(t, i + 1, d + 1, IF d + 1 > m THEN d + 1 ELSE m)
    ELSE IF t[i] = RPAREN /\ d > 0 THEN Depth(t, i + 1, d - 1, m)
    ELSE Depth(t, i + 1, d, m)

\* C7: for an accepted input with comments before the local part, between the
\* local part and "@", between "@" and the domain, between the atoms of the
\* domain or after the domain, the output holds no comment and equals the
\* output of the input with its comments deleted; a@a.a with balanced
\* comments (ctext, quoted-pairs, nested comments at any depth) at these
\* positions is accepted as a@a.a.
C7_CommentsRemoved ==
    pc # "init" =>
        /\ result.ok =>
               /\ result = parse_email_address(DeleteComments(input, 1, 0))
               /\ ~Contains(result.val, LPAREN)
               /\ ~Contains(result.val, RPAREN)
        /\ /\ CommentsWellFormed(input, 1, 0)
           /\ SelectSeq(DeleteComments(input, 1, 0), NotWs) = AddrDotted
           => result = Accepted(AddrDotted)

\* comments nested four deep between the atoms of the domain are removed
C7_Witness ==
    /\ pc # "init"
    /\ Depth(input, 1, 0, 0) >= 4
    /\ Prefix(input, 3) = <<LetterA, AT, LetterA>>
    /\ result = Accepted(AddrDotted)

(***************************************************************************)
(* C8: dot placement.                                                      *)
(***************************************************************************)
MaxFree == 5

MaxDots == 3

FreeAlphabet == {LetterA, DOT, AT, SP, LPAREN, RPAREN}

QuotedWord == <<DQUOTE, LetterA, DQUOTE>>

LiteralDomain == <<AT, LBRACKET, LetterA, RBRACKET>>

\* any text over a . @ SP ( ), a quoted word followed by dots and atoms with
\* a dotted domain, and a dotted local part with a domain-literal
InputsDots ==
    Strings(FreeAlphabet, MaxFree)
        \cup {QuotedWord \o x \o <<AT>> \o y :
                 x \in Strings({LetterA, DOT}, MaxDots - 1),
                 y \in Strings({LetterA, DOT}, MaxDots)}
        \cup {x \o LiteralDomain : x \in Strings({LetterA, DOT, SP}, MaxDots + 1)}

SpecDots == Start(InputsDots) /\ [][Next]_vars

\* t without its comments and whitespace
Core(t) == SelectSeq(DeleteComments(t, 1, 0), NotWs)

AtIndices(t) == {i \in 1..Len(t) : t[i] = AT}

\* the text before and after the only "@" of t
LocalOf(t) == Prefix(t, (CHOOSE i \in AtIndices(t) : TRUE) - 1)

DomainOf(t) == Suffix(t, CHOOSE i \in AtIndices(t) : TRUE)

\* x starts with ".", ends with "." or has two consecutive "."
BadDots(x) ==
    /\ x # <<>>
    /\ \/ x[1] = DOT
       \/ x[Len(x)] = DOT
       \/ \E i \in 1..(Len(x) - 1) : x[i] = DOT /\ x[i + 1] = DOT

\* C8: an input whose local part (outside quoted words) or whose non-literal
\* domain, read without the surrounding comments and whitespace, starts with
\* ".", ends with "." or contains "..", is rejected.
C8_DotPlacement ==
    pc # "init" /\ Cardinality(AtIndices(Core(input))) = 1 =>
        LET local == LocalOf(Core(input))
            domain == DomainOf(Core(input))
        IN  (BadDots(local) \/ (BadDots(domain) /\ domain[1] # LBRACKET))
                => ~result.ok

\* an address followed by "." and a space parses up to the dot and is
\* rejected, not cut short
C8_Witness ==
    /\ pc # "init"
    /\ Cardinality(AtIndices(Core(input))) = 1
    /\ BadDots(DomainOf(Core(input)))
    /\ Contains(input, SP)
    /\ addr_spec_parser_internal(input, 0).ok
    /\ ~result.ok

(***************************************************************************)
(* C9: character classes.                                                  *)
(***************************************************************************)
MaxCtl == 3

CtlAlphabet == {SOH, VT, DEL, EAcute, CR, LF, SP, BACKSLASH}

CommentOpen == <<LetterA, LPAREN, LetterA>>

CommentClose == <<RPAREN, AT, LetterA>>

\* the text before and after the inserted characters: before the local part,
\* in it, after "@", after the domain, inside a quoted-string, inside a
\* domain-literal and inside a comment
CtlFrames ==
    {<< <<>>, AddrPlain >>,
     << <<LetterA>>, <<LetterA, AT, LetterA>> >>,
     << <<LetterA, AT>>, <<LetterA>> >>,
     << AddrPlain, <<>> >>,
     << <<DQUOTE, LetterA>>, QuotedClose >>,
     << LiteralOpen \o <<LetterA>>, LiteralClose >>,
     << CommentOpen, CommentClose >>}

InputsCtl ==
    {f[1] \o mid \o f[2] : f \in CtlFrames, mid \in Strings(CtlAlphabet, MaxCtl)}

SpecCtl == Start(InputsCtl) /\ [][Next]_vars

\* the control characters 0x00-0x08, 0x0B-0x1F and 0x7F
IsControl(c) == (c >= 0 /\ c <= 8) \/ (c >= 11 /\ c <= 31) \/ c = DEL

IsNonAscii(c) == c > DEL

RECURSIVE BackslashesBefore(_, _)
\* the length of the run of backslashes that ends at index i
BackslashesBefore(t, i) ==
    IF i >= 1 /\ t[i] = BACKSLASH THEN 1 + BackslashesBefore(t, i - 1) ELSE 0

\* t[i] is the escaped character of a quoted-pair
Escaped(t, i) == BackslashesBefore(t, i - 1) % 2 = 1

\* t[i] is the CR of a CR LF followed by a space or tab
StartsFold(t, i) ==
    t[i] = CR /\ i + 2 <= Len(t) /\ t[i + 1] = LF /\ t[i + 2] \in {SP, HTAB}

\* t[i] is non-ASCII, or a control character that is not escaped
Rejected(t, i) ==
    \/ IsNonAscii(t[i])
    \/ IsControl(t[i]) /\ ~Escaped(t, i)

\* C9 as stated: an input with a non-ASCII character anywhere, or with a
\* control character 0x00-0x08, 0x0B-0x1F, 0x7F that is not the escaped
\* character of a quoted-pair, is rejected.
C9_AsStated ==
    pc # "init" /\ (\E i \in 1..Len(input) : Rejected(input, i)) => ~result.ok

\* C9: an input with a non-ASCII character anywhere, or with a control
\* character 0x00-0x08, 0x0B-0x1F, 0x7F that is neither the escaped character
\* of a quoted-pair nor the CR of a CR LF followed by a space or tab, is
\* rejected, wherever the character occurs.
C9_CharacterClasses ==
    pc # "init"
        /\ (\E i \in 1..Len(input) : Rejected(input, i) /\ ~StartsFold(input, i))
        => ~result.ok

Printable(c) == ~IsControl(c) /\ ~IsNonAscii(c)

\* a quoted-string that is rejected for a DEL and a non-ASCII character in
\* its content and accepted without them
C9_Witness ==
    /\ pc # "init"
    /\ IsFramed(input, QuotedOpen, QuotedClose)
    /\ Contains(input, DEL)
    /\ Contains(input, EAcute)
    /\ ~result.ok
    /\ parse_email_address(SelectSeq(input, Printable)).ok

(***************************************************************************)
(* C10: unbalanced delimiters.                                             *)
(***************************************************************************)
MaxDelim == 5

DelimAlphabet == {LetterA, AT, DQUOTE, LBRACKET, RBRACKET, LPAREN, RPAREN, BACKSLASH}

InputsDelims == Strings(DelimAlphabet, MaxDelim) \cup InputsQuoted \cup InputsLiteral

SpecDelims == Start(InputsDelims) /\ [][Next]_vars

RECURSIVE Balanced(_, _, _, _)
\* t[i..], read in mode "out", "quote", "literal" or "comment" (at depth d),
\* closes every quoted-string, domain-literal and comment it opens, has no
\* ")" or "]" without an opener and no unescaped "[" inside a domain-literal
Balanced(t, i, mode, d) ==
    IF i > Len(t) THEN mode = "out"
    ELSE IF mode = "out"
         THEN IF t[i] = DQUOTE THEN Balanced(t, i + 1, "quote", 0)
              ELSE IF t[i] = LBRACKET THEN Balanced(t, i + 1, "literal", 0)
              ELSE IF t[i] = LPAREN THEN Balanced(t, i + 1, "comment", 1)
              ELSE IF t[i] \in {RPAREN, RBRACKET} THEN FALSE
              ELSE Balanced(t, i + 1, "out", 0)
    ELSE IF t[i] = BACKSLASH THEN Balanced(t, i + 2, mode, d)
    ELSE IF mode = "quote"
         THEN Balanced(t, i + 1, IF t[i] = DQUOTE THEN "out" ELSE "quote", 0)
    ELSE IF mode = "literal"
         THEN IF t[i] = LBRACKET THEN FALSE
              ELSE Balanced(t, i + 1, IF t[i] = RBRACKET THEN "out" ELSE "literal", 0)
    ELSE IF t[i] = LPAREN THEN Balanced(t, i + 1, "comment", d + 1)
    ELSE IF t[i] = RPAREN
         THEN Balanced(t, i + 1, IF d = 1 THEN "out" ELSE "comment", d - 1)
    ELSE Balanced(t, i + 1, "comment", d)

\* c has the character ch at an index where it is not escaped
HasUnescaped(c, ch) == \E i \in 1..Len(c) : c[i] = ch /\ ~Escaped(c, i)

\* C10: an input with an unclosed quoted-string, domain-literal or comment,
\* an extra "(" or ")", or an unescaped "[" inside a domain-literal is
\* rejected, and so are "content"@a with an unescaped double quote in the
\* content and a@[content] with an unescaped "[" or "]" in the content.
C10_UnbalancedDelimiters ==
    pc # "init" =>
        /\ ~Balanced(input, 1, "out", 0) => ~result.ok
        /\ /\ IsFramed(input, QuotedOpen, QuotedClose)
           /\ HasUnescaped(Content(input, QuotedOpen, QuotedClose), DQUOTE)
           => ~result.ok
        /\ /\ IsFramed(input, LiteralOpen, LiteralClose)
           /\ \/ HasUnescaped(Content(input, LiteralOpen, LiteralClose), LBRACKET)
              \/ HasUnescaped(Content(input, LiteralOpen, LiteralClose), RBRACKET)
           => ~result.ok

\* a complete address followed by an unmatched parenthesis is rejected
C10_Witness ==
    /\ pc # "init"
    /\ ~Balanced(input, 1, "out", 0)
    /\ Contains(input, LPAREN) \/ Contains(input, RPAREN)
    /\ addr_spec_parser_internal(input, 0).ok
    /\ ~result.ok

(***************************************************************************)
(* C11: emptiness.                                                         *)
(***************************************************************************)
MaxPad == 4

EmptyQuoted == <<DQUOTE, DQUOTE>>

EmptyLiteral == <<LBRACKET, RBRACKET>>

PadChoices == {<<>>, <<SP>>, <<LPAREN, LetterA, RPAREN>>, <<SP, LPAREN, RPAREN, HTAB>>}

LocalChoices == {<<>>, <<LetterA>>, EmptyQuoted}

DomainChoices == {<<>>, <<LetterA>>, EmptyLiteral}

\* local part l and domain d with the CFWS cs[1..4] around them and "@"
Padded(cs, l, d) == cs[1] \o l \o cs[2] \o <<AT>> \o cs[3] \o d \o cs[4]

\* an empty or present local part and domain with optional CFWS around
\* them, and any text over a @ SP ( ) up to MaxPad
InputsEmpty ==
    {Padded(cs, l, d) : cs \in [1..4 -> PadChoices], l \in LocalChoices, d \in DomainChoices}
        \cup Strings({LetterA, AT, SP, LPAREN, RPAREN}, MaxPad)

SpecEmpty == Start(InputsEmpty) /\ [][Next]_vars

\* C11: ""@domain and local@[] (with or without CFWS around the parts) are
\* accepted and normalize to themselves; an empty input, an input of CFWS
\* only, and an input with nothing or only CFWS before or after "@" are
\* rejected.
C11_Emptiness ==
    pc # "init" =>
        /\ \A cs \in [1..4 -> PadChoices] :
               \A l \in LocalChoices \ {<<>>}, d \in DomainChoices \ {<<>>} :
                   input = Padded(cs, l, d) => result = Accepted(l \o <<AT>> \o d)
        /\ input = <<>> \/ IsCFWS(input) => ~result.ok
        /\ Core(input) # <<>> /\ Core(input)[1] = AT => ~result.ok
        /\ Core(input) # <<>> /\ Core(input)[Len(Core(input))] = AT => ~result.ok

\* an empty quoted-string and an empty domain-literal with comments around
\* them parse to ""@[]
C11_Witness ==
    /\ pc # "init"
    /\ Contains(input, LPAREN)
    /\ Core(input) = EmptyQuoted \o <<AT>> \o EmptyLiteral
    /\ result = Accepted(EmptyQuoted \o <<AT>> \o EmptyLiteral)

(***************************************************************************)
(* C12: totality, and the error value.                                     *)
(***************************************************************************)
RECURSIVE Significant(_, _, _, _)
\* t[i..], read in mode "out", "quote", "literal" or "comment" (at depth d),
\* without its comments
Significant(t, i, mode, d) ==
    IF i > Len(t) THEN <<>>
    ELSE IF mode = "out"
         THEN IF t[i] = LPAREN THEN Significant(t, i + 1, "comment", 1)
              ELSE <<t[i]>> \o Significant(t, i + 1,
                                   IF t[i] = DQUOTE THEN "quote"
                                   ELSE IF t[i] = LBRACKET THEN "literal"
                                   ELSE "out", 0)
    ELSE IF mode = "comment"
         THEN IF t[i] = BACKSLASH THEN Significant(t, i + 2, mode, d)
              ELSE IF t[i] = LPAREN THEN Significant(t, i + 1, mode, d + 1)
              ELSE IF t[i] = RPAREN
                   THEN Significant(t, i + 1, IF d = 1 THEN "out" ELSE mode, d - 1)
              ELSE Significant(t, i + 1, mode, d)
    ELSE IF t[i] = BACKSLASH /\ i < Len(t)
         THEN <<t[i], t[i + 1]>> \o Significant(t, i + 2, mode, d)
    ELSE <<t[i]>> \o Significant(t, i + 1,
                         IF t[i] = (IF mode = "quote" THEN DQUOTE ELSE RBRACKET)
                         THEN "out" ELSE mode, d)

\* C12: every call returns: either an error that carries the input
\* unchanged, or the normalized address of the whole input, never the
\* address of a proper prefix: the parse has consumed the input to its end
\* and the output holds every character of the input that is not in a
\* comment and is not whitespace.
C12_TotalAndWhole ==
    pc # "init" =>
        /\ result.ok \in BOOLEAN
        /\ ~result.ok => result.val = input
        /\ result.ok =>
               /\ addr_spec_parser_internal(input, 0).pos = Len(input)
               /\ SelectSeq(result.val, NotWs)
                      = SelectSeq(Significant(input, 1, "out", 0), NotWs)

\* an input with a proper prefix that is an address is rejected, and the
\* error carries the whole input
C12_Witness ==
    /\ pc # "init"
    /\ addr_spec_parser_internal(input, 0).ok
    /\ addr_spec_parser_internal(input, 0).pos < Len(input)
    /\ ~result.ok
    /\ result.val = input

(***************************************************************************)
(* C13: the shape of the normalized output.                                *)
(***************************************************************************)
RECURSIVE AtomEnd(_, _)
\* the index after the maximal run of atext that starts at index i
AtomEnd(t, i) == IF i <= Len(t) /\ atext(t[i]) THEN AtomEnd(t, i + 1) ELSE i

RECURSIVE DelimitedEnd(_, _, _, _)
\* the index after the closing character `close` of the delimited text whose
\* content starts at index i, or 0 when it is not closed or holds a character
\* that is neither printable nor a space or tab, or an unescaped `open`
DelimitedEnd(t, i, open, close) ==
    IF i > Len(t) THEN 0
    ELSE IF t[i] = close THEN i + 1
    ELSE IF t[i] = BACKSLASH
         THEN IF i < Len(t) /\ IsVcharOrWsp(t[i + 1])
              THEN DelimitedEnd(t, i + 2, open, close) ELSE 0
    ELSE IF IsVcharOrWsp(t[i]) /\ t[i] # open
         THEN DelimitedEnd(t, i + 1, open, close) ELSE 0

\* the index after the quoted string that starts at index i, or 0
QuotedEnd(t, i) ==
    IF i <= Len(t) /\ t[i] = DQUOTE THEN DelimitedEnd(t, i + 1, DQUOTE, DQUOTE) ELSE 0

RECURSIVE DotAtomEnd(_, _)
\* the index after the dot-atom (atext runs separated by single dots) that
\* starts at index i, or 0
DotAtomEnd(t, i) ==
    IF AtomEnd(t, i) = i THEN 0
    ELSE IF AtomEnd(t, i) <= Len(t) /\ t[AtomEnd(t, i)] = DOT
         THEN DotAtomEnd(t, AtomEnd(t, i) + 1)
    ELSE AtomEnd(t, i)

RECURSIVE WordsEnd(_, _)
\* the index after the words (atext runs or quoted strings) separated by
\* single dots that start at index i, or 0
WordsEnd(t, i) ==
    LET w == IF i <= Len(t) /\ t[i] = DQUOTE THEN QuotedEnd(t, i)
             ELSE IF AtomEnd(t, i) = i THEN 0 ELSE AtomEnd(t, i)
    IN  IF w = 0 THEN 0
        ELSE IF w <= Len(t) /\ t[w] = DOT THEN WordsEnd(t, w + 1)
        ELSE w

\* t from index k on is "@" and a dot-atom or one bracketed domain-literal
IsAtDomain(t, k) ==
    /\ k >= 1 /\ k < Len(t) /\ t[k] = AT
    /\ \/ DotAtomEnd(t, k + 1) = Len(t) + 1
       \/ t[k + 1] = LBRACKET /\ DelimitedEnd(t, k + 2, LBRACKET, RBRACKET) = Len(t) + 1

\* C13 as stated: every output is L@D with L a dot-atom or one quoted
\* string, and D a dot-atom or one bracketed domain-literal.
C13_AsStated ==
    pc # "init" /\ result.ok =>
        \/ IsAtDomain(result.val, DotAtomEnd(result.val, 1))
        \/ IsAtDomain(result.val, QuotedEnd(result.val, 1))

\* C13: every output is L@D with L one or more words joined by single dots,
\* each word a run of atext or a quoted string with its quotes (so a
\* dot-atom, one quoted string, or a mixture of both), and D a dot-atom or
\* one bracketed domain-literal.
C13_OutputShape ==
    pc # "init" /\ result.ok => IsAtDomain(result.val, WordsEnd(result.val, 1))

\* a quoted word and an atom joined by a dot are returned as a local part
C13_Witness ==
    /\ pc # "init"
    /\ result.ok
    /\ Len(result.val) >= 5
    /\ Prefix(result.val, 5) = <<DQUOTE, LetterA, DQUOTE, DOT, LetterA>>
    /\ input # result.val

(***************************************************************************)
(* Header blocks for parse_email_headers.                                  *)
(***************************************************************************)
MaxEmail == 5

MaxLines == 4

EmailAlphabet == {LetterA, COLON, SP, HTAB, LF, CR}

\* lines of a header block: fields, a line without a colon, continuation
\* lines, and blank lines
HeaderLines ==
    { <<LetterA, COLON, LetterA>>,
      <<LetterA, SP, COLON, SP, LetterA, COLON, LetterA, HTAB>>,
      <<COLON, LetterA>>,
      <<LetterA>>,
      <<SP, LetterA>>,
      <<HTAB, HTAB, LetterA, COLON, LetterA, SP>>,
      <<>>,
      <<SP, HTAB>> }

RECURSIVE JoinLines(_, _)
\* the lines ls[i..], each ended by "\n"
JoinLines(ls, i) ==
    IF i > Len(ls) THEN <<>> ELSE ls[i] \o <<LF>> \o JoinLines(ls, i + 1)

\* any text over a : SP HTAB LF CR up to MaxEmail, and up to MaxLines lines
InputsEmail ==
    Strings(EmailAlphabet, MaxEmail)
        \cup {JoinLines(ls, 1) : ls \in UNION {[1..n -> HeaderLines] : n \in 0..MaxLines}}

SpecHeaders == StartHeaders(InputsEmail) /\ [][NextHeaders]_vars

\* the lines of the text, a final "\r" kept
Ls == lines(email, 1, <<>>)

IsBlank(l) == \A i \in 1..Len(l) : is_whitespace(l[i])

\* the index of the first blank line, Len + 1 when there is none
Boundary(ls) ==
    IF \E k \in 1..Len(ls) : IsBlank(ls[k])
    THEN CHOOSE k \in 1..Len(ls) : IsBlank(ls[k]) /\ \A j \in 1..(k - 1) : ~IsBlank(ls[j])
    ELSE Len(ls) + 1

IsCont(l) == l # <<>> /\ l[1] \in {SP, HTAB}

HasColon(l) == \E i \in 1..Len(l) : l[i] = COLON

\* the lines before the boundary that are not continuations and have a colon
FieldLines(ls) ==
    {k \in 1..(Boundary(ls) - 1) : ~IsCont(ls[k]) /\ HasColon(ls[k])}

\* the line of the j-th field
FieldLineAt(ls, j) ==
    CHOOSE k \in FieldLines(ls) : Cardinality({m \in FieldLines(ls) : m <= k}) = j

FirstColon(l) == CHOOSE i \in 1..Len(l) : l[i] = COLON /\ \A j \in 1..(i - 1) : l[j] # COLON

RECURSIVE BlockEnd(_, _, _)
\* the index of the "\n" that ends the first blank line of t[i..] (blank:
\* the line read so far holds only whitespace), 0 when no blank line is
\* ended by a "\n"
BlockEnd(t, i, blank) ==
    IF i > Len(t) THEN 0
    ELSE IF t[i] = LF THEN (IF blank THEN i ELSE BlockEnd(t, i + 1, TRUE))
    ELSE BlockEnd(t, i + 1, blank /\ is_whitespace(t[i]))

\* texts that may follow the boundary line
BodyChoices ==
    { <<>>, <<LetterA, COLON, LetterA>>, <<SP, LetterA>>,
      <<LetterA, COLON, LetterA, LF, HTAB, LetterA, LF>> }

\* C15: the fields depend only on the text up to and including the first
\* blank line (also one that starts with a space or tab): the text after it
\* adds no field and no continuation, so every text that agrees with `email`
\* up to that line gives the same fields.
C15_StopsAtBoundary ==
    pc = "unfolded" /\ BlockEnd(email, 1, TRUE) # 0 =>
        /\ Len(headers) <= Boundary(Ls) - 1
        /\ \A body \in BodyChoices :
               parse_email_headers(Prefix(email, BlockEnd(email, 1, TRUE)) \o body) = headers

\* a field, a blank line that starts with a space, and a field and a
\* continuation after it that are not read
C15_Witness ==
    /\ pc = "unfolded"
    /\ BlockEnd(email, 1, TRUE) > 1
    /\ BlockEnd(email, 1, TRUE) < Len(email)
    /\ email[BlockEnd(email, 1, TRUE) - 1] = HTAB
    /\ Len(headers) = 1
    /\ FieldLines(Ls) # {}
    /\ \E k \in (Boundary(Ls) + 1)..Len(Ls) : HasColon(Ls[k]) /\ ~IsCont(Ls[k])

(***************************************************************************)
(* C16, C17, C18: fields and continuation lines.                           *)
(***************************************************************************)
\* l without the whitespace at its two ends
Trimmed(l) ==
    IF IsBlank(l) THEN <<>>
    ELSE LET solid == {i \in 1..Len(l) : ~is_whitespace(l[i])}
         IN  SubSeq(l, CHOOSE i \in solid : \A j \in solid : i <= j,
                       CHOOSE i \in solid : \A j \in solid : i >= j)

\* the name and the initial value of the field line l
NameOf(l) == Trimmed(SubSeq(l, 1, FirstColon(l) - 1))

InitialValueOf(l) == Trimmed(SubSeq(l, FirstColon(l) + 1, Len(l)))

RECURSIVE RunValue(_, _, _)
\* " " and the trimmed text of each line of the run of continuation lines
\* that starts at line k, before line b
RunValue(ls, k, b) ==
    IF k < b /\ IsCont(ls[k])
    THEN <<SP>> \o Trimmed(ls[k]) \o RunValue(ls, k + 1, b)
    ELSE <<>>

\* C16: a line before the boundary that starts with a space or tab opens no
\* field, also when it holds a colon: there are as many fields as lines that
\* do not start with a space or tab and hold a colon; and the value of a
\* field is its initial value followed, for each continuation line after
\* the field's line, by one space and the trimmed text of that line,
\* however many spaces or tabs start it.
C16_Continuation ==
    pc = "unfolded" =>
        /\ Len(headers) = Cardinality(FieldLines(Ls))
        /\ \A j \in 1..Len(headers) :
               headers[j].value
                   = InitialValueOf(Ls[FieldLineAt(Ls, j)])
                         \o RunValue(Ls, FieldLineAt(Ls, j) + 1, Boundary(Ls))

\* To: a, and a tab-indented a that holds a colon give one field with the
\* value "a a:a"
C16_Witness ==
    /\ pc = "unfolded"
    /\ Len(Ls) >= 2
    /\ Ls[1] = <<LetterA, COLON, LetterA>>
    /\ Ls[2] = <<HTAB, HTAB, LetterA, COLON, LetterA, SP>>
    /\ Len(headers) = 1
    /\ headers[1].value = <<LetterA, SP, LetterA, COLON, LetterA>>

\* C18: one field per line before the boundary that is not a continuation
\* and holds a colon, in source order, repeated names kept; the name is the
\* trimmed text before the first colon, and the value starts with the
\* trimmed text after the first colon (later colons stay in it); a line
\* without a colon gives no field and does not stop later fields.
C18_FieldSplitting ==
    pc = "unfolded" =>
        /\ Len(headers) = Cardinality(FieldLines(Ls))
        /\ \A j \in 1..Len(headers) :
               LET l == Ls[FieldLineAt(Ls, j)]
               IN  /\ headers[j].name = NameOf(l)
                   /\ Len(headers[j].value) >= Len(InitialValueOf(l))
                   /\ Prefix(headers[j].value, Len(InitialValueOf(l))) = InitialValueOf(l)

\* a line without a colon between two fields of the same name, the second
\* with two colons
C18_Witness ==
    /\ pc = "unfolded"
    /\ Len(Ls) >= 3
    /\ ~HasColon(Ls[1]) /\ ~IsCont(Ls[1]) /\ ~IsBlank(Ls[1])
    /\ Len(headers) = 2
    /\ headers[1].name = headers[2].name
    /\ headers[2].value = <<LetterA, COLON, LetterA>>

RECURSIVE AllContValue(_, _, _)
\* " " and the trimmed text of every continuation line from line k up to
\* the next field line or line b, the lines without a colon skipped
AllContValue(ls, k, b) ==
    IF k >= b THEN <<>>
    ELSE IF IsCont(ls[k]) THEN <<SP>> \o Trimmed(ls[k]) \o AllContValue(ls, k + 1, b)
    ELSE IF HasColon(ls[k]) THEN <<>>
    ELSE AllContValue(ls, k + 1, b)

\* C17 as stated: every continuation line after a field line is appended to
\* the nearest preceding field, whatever lines lie between them.
C17_AsStated ==
    pc = "unfolded" /\ Len(headers) = Cardinality(FieldLines(Ls)) =>
        \A j \in 1..Len(headers) :
            headers[j].value
                = InitialValueOf(Ls[FieldLineAt(Ls, j)])
                      \o AllContValue(Ls, FieldLineAt(Ls, j) + 1, Boundary(Ls))

\* a field is open at line k: the nearest line before k that is not a
\* continuation is a field line
OpenAt(ls, k) ==
    \E j \in FieldLines(ls) : j < k /\ \A m \in (j + 1)..(k - 1) : IsCont(ls[m])

RECURSIVE AppendedLength(_, _, _)
\* the characters appended to the initial values of the fields hs[j..]
AppendedLength(hs, ls, j) ==
    IF j > Len(hs) THEN 0
    ELSE Len(hs[j].value) - Len(InitialValueOf(ls[FieldLineAt(ls, j)]))
             + AppendedLength(hs, ls, j + 1)

RECURSIVE OpenLength(_, _, _)
\* one space and the trimmed text of every continuation line from line k to
\* before line b at which a field is open
OpenLength(ls, k, b) ==
    IF k >= b THEN 0
    ELSE (IF IsCont(ls[k]) /\ OpenAt(ls, k) THEN 1 + Len(Trimmed(ls[k])) ELSE 0)
             + OpenLength(ls, k + 1, b)

\* C17: a continuation line is discarded exactly when no field is open at
\* it: no line other than continuations precedes it, or the nearest such
\* line has no colon. Every other continuation line before the boundary is
\* appended, after one space, to the field of the nearest preceding line
\* that is not a continuation.
C17_DiscardedWhenNotOpen ==
    pc = "unfolded" /\ Len(headers) = Cardinality(FieldLines(Ls)) =>
        /\ AppendedLength(headers, Ls, 1) = OpenLength(Ls, 1, Boundary(Ls))
        /\ \A k \in 1..(Boundary(Ls) - 1) :
               IsCont(Ls[k]) /\ OpenAt(Ls, k) =>
                   \E j \in 1..Len(headers) :
                       /\ FieldLineAt(Ls, j) < k
                       /\ \A m \in (FieldLineAt(Ls, j) + 1)..k : IsCont(Ls[m])
                       /\ headers[j].value
                              = InitialValueOf(Ls[FieldLineAt(Ls, j)])
                                    \o RunValue(Ls, FieldLineAt(Ls, j) + 1, k + 1)
                                    \o RunValue(Ls, k + 1, Boundary(Ls))

\* a continuation line after a line without a colon is discarded although a
\* field precedes both
C17_Witness ==
    /\ pc = "unfolded"
    /\ Len(Ls) >= 3
    /\ Ls[1] = <<LetterA, COLON, LetterA>>
    /\ Ls[2] = <<LetterA>>
    /\ Ls[3] = <<SP, LetterA>>
    /\ headers = <<[name |-> <<LetterA>>, value |-> <<LetterA>>]>>

\* ---------------------------------------------------------------------
\* Runs of run_sendmail
\* ---------------------------------------------------------------------

MaxRunLines == 3

\* "To:a", "cc:a", "Bcc:a", "From:a", a continuation " a", and the blank
\* line that ends the header block
RunLines ==
    { NameTo \o <<COLON, LetterA>>,
      <<99, 99, COLON, LetterA>>,
      NameBcc \o <<COLON, LetterA>>,
      NameFrom \o <<COLON, LetterA>>,
      <<SP, LetterA>>,
      <<>> }

InputsRun == {JoinLines(ls, 1) : ls \in UNION {[1..n -> RunLines] : n \in 0..MaxRunLines}}

SpecRun == StartRun(InputsRun) /\ [][NextRun]_vars

\* C19: with -t, when the value of any To, Cc or Bcc header fails
\* mailbox-list parsing the run ends with exit code 1, the backend's send
\* is not invoked and no recipient gathered from the earlier headers is
\* kept for delivery.
C19_HeaderFailureAborts ==
    (\E i \in 1..Len(lettre) : ~lettre[i].ok) =>
        /\ cli.valid /\ cli.t
        /\ pc = "done"
        /\ exit = 1
        /\ sends = <<>>
        /\ recipients = <<>>

\* a first recipient header gave an address, the second failed
C19_Witness ==
    /\ Len(lettre) >= 2
    /\ lettre[1] = [ok |-> TRUE, addrs |-> <<AddrPlain>>]
    /\ ~lettre[2].ok
    /\ Len(header_values(headers, NameTo)) = 1
    /\ Len(header_values(headers, NameBcc)) = 1
    /\ exit = 1
    /\ sends = <<>>

\* C20: a run whose resolved recipient list is empty, from the command
\* line or from the headers with -t, ends with exit code 1 and without the
\* backend's send being invoked.
C20_NeverEmptyRecipients ==
    pc = "done" /\ recipients = <<>> => exit = 1 /\ sends = <<>>

\* C14: every address value of a run was produced by a successful parse of
\* its text by email_parser::parse_email_address.
C14_SingleGate ==
    \A m \in made : m.by = ByGrammar /\ parse_email_address(m.text).ok

\* C21: the envelope sender handed to the backend is the -f address when
\* -f is given, whatever the From header; otherwise the first address of
\* the first From header when that header parses to one; otherwise
\* nobody@localhost.
C21_SenderPrecedence ==
    \A k \in 1..Len(sends) :
        sends[k].from =
            IF cli.from # <<>> THEN cli.from[1]
            ELSE IF lettre_from # <<>> /\ lettre_from[1].ok /\ lettre_from[1].addrs # <<>>
            THEN lettre_from[1].addrs[1]
            ELSE NobodyAtLocalhost

\* -f is given and the From header parses to another address
C21_Witness ==
    /\ Len(sends) = 1
    /\ cli.from = <<AddrOther>>
    /\ lettre_from # <<>>
    /\ lettre_from[1] = [ok |-> TRUE, addrs |-> <<AddrPlain>>]
    /\ sends[1].from = AddrOther

\* C30: without -f, when the first From header fails to parse or yields no
\* address, the run is not ended for it: it goes on to the send with
\* nobody@localhost as envelope sender, whatever the later From headers
\* would give.
C30_FromFailureFallsBack ==
    (/\ lettre_from # <<>>
     /\ cli.from = <<>>
     /\ ~lettre_from[1].ok \/ lettre_from[1].addrs = <<>>) =>
        /\ pc \in {"send", "done"}
        /\ envelope_from = NobodyAtLocalhost
        /\ pc = "done" => Len(sends) = 1 /\ sends[1].from = NobodyAtLocalhost

\* the first From header fails, the second would give an address, and the
\* message is sent
C30_Witness ==
    /\ Len(lettre_from) >= 2
    /\ cli.from = <<>>
    /\ ~lettre_from[1].ok
    /\ lettre_from[2] = [ok |-> TRUE, addrs |-> <<AddrPlain>>]
    /\ exit = 0
    /\ Len(sends) = 1
    /\ sends[1].from = NobodyAtLocalhost

LowerName(n) == [i \in 1..Len(n) |-> IF n[i] \in 65..90 THEN n[i] + 32 ELSE n[i]]

\* the positions of the header fields whose lower-cased name is n, ascending
RECURSIVE PositionsFrom(_, _, _)
PositionsFrom(hs, n, i) ==
    IF i > Len(hs) THEN <<>>
    ELSE (IF LowerName(hs[i].name) = n THEN <<i>> ELSE <<>>) \o PositionsFrom(hs, n, i + 1)

\* the addresses of the answers os[1..], in order
RECURSIVE AllAddrs(_, _)
AllAddrs(os, i) == IF i > Len(os) THEN <<>> ELSE os[i].addrs \o AllAddrs(os, i + 1)

\* C23: with -t the values parsed for recipients are those of every To
\* header, then every Cc header, then every Bcc header (names compared
\* case-insensitively, headers of one name in message order), the envelope
\* recipients are their addresses in that order, and the command-line
\* recipients are not used; without -t the envelope recipients are the
\* command-line recipients and no header value is parsed for recipients.
C23_RecipientSource ==
    \A k \in 1..Len(sends) :
        IF cli.t
        THEN /\ consulted = PositionsFrom(headers, <<116, 111>>, 1)
                               \o PositionsFrom(headers, <<99, 99>>, 1)
                               \o PositionsFrom(headers, <<98, 99, 99>>, 1)
             /\ Len(lettre) = Len(consulted)
             /\ sends[k].to = AllAddrs(lettre, 1)
        ELSE /\ consulted = <<>>
             /\ lettre = <<>>
             /\ sends[k].to = cli.recipients

\* a cc header stands before the To header, and a recipient is given on
\* the command line as well
C23_Witness ==
    /\ Len(sends) = 1
    /\ cli.t
    /\ cli.recipients = <<AddrPlain>>
    /\ consulted = <<2, 1>>
    /\ lettre[1].addrs = <<AddrOther, AddrPlain>>
    /\ lettre[2].addrs = <<AddrOther>>
    /\ sends[1].to = <<AddrOther, AddrPlain, AddrOther>>

\* ---------------------------------------------------------------------
\* Runs of run_sendmail on messages with and without From, Date and
\* Message-ID
\* ---------------------------------------------------------------------

MaxCompleteLines == 3

\* "From:a", "date:a", "MESSAGE-ID:a", a line without a colon, and the
\* blank line that ends the header block
CompleteLines ==
    { NameFrom \o <<COLON, LetterA>>,
      <<100, 97, 116, 101, COLON, LetterA>>,
      <<77, 69, 83, 83, 65, 71, 69, 45, 73, 68, COLON, LetterA>>,
      <<LetterA>>,
      <<>> }

InputsComplete ==
    {JoinLines(ls, 1) : ls \in UNION {[1..n -> CompleteLines] : n \in 0..MaxCompleteLines}}

\* command lines with and without -F, its name plain or with a quote
CommandLinesFullname ==
    {[valid |-> FALSE]} \cup
    {[valid |-> TRUE, t |-> t, from |-> f, recipients |-> <<AddrPlain>>, fullname |-> n] :
        t \in BOOLEAN, f \in {<<>>, <<AddrOther>>},
        n \in {<<>>, << <<LetterA>> >>, << <<LetterA, DQUOTE>> >>}}

SpecComplete == StartRunWith(CommandLinesFullname, InputsComplete) /\ [][NextRun]_vars

\* the lines of g, each of which ends with CR LF; g itself when it does not
\* consist of such lines
RECURSIVE CrlfLines(_, _, _)
CrlfLines(g, i, cur) ==
    IF i > Len(g) THEN (IF cur = <<>> THEN <<>> ELSE <<cur>>)
    ELSE IF g[i] = CR /\ i < Len(g) /\ g[i + 1] = LF
    THEN <<cur>> \o CrlfLines(g, i + 2, <<>>)
    ELSE CrlfLines(g, i + 1, Append(cur, g[i]))

\* the lower-cased text before the first ": " of the line, the whole line
\* when it has none
GeneratedName(l) ==
    IF \E i \in 1..(Len(l) - 1) : l[i] = COLON /\ l[i + 1] = SP
    THEN LET i == CHOOSE i \in 1..(Len(l) - 1) :
                      /\ l[i] = COLON /\ l[i + 1] = SP
                      /\ \A j \in 1..(i - 1) : l[j] # COLON
         IN  LowerName(SubSeq(l, 1, i - 1))
    ELSE LowerName(l)

Carries(hs, n) == \E i \in 1..Len(hs) : LowerName(hs[i].name) = n

\* the names among from, date and message-id that no header field carries
MissingNames(hs) ==
    (IF Carries(hs, <<102, 114, 111, 109>>) THEN <<>> ELSE << <<102, 114, 111, 109>> >>)
    \o (IF Carries(hs, <<100, 97, 116, 101>>) THEN <<>> ELSE << <<100, 97, 116, 101>> >>)
    \o (IF Carries(hs, <<109, 101, 115, 115, 97, 103, 101, 45, 105, 100>>) THEN <<>>
        ELSE << <<109, 101, 115, 115, 97, 103, 101, 45, 105, 100>> >>)

\* C22: the message handed to the backend ends with the original message
\* unchanged, and what stands before it is a sequence of lines, each ended
\* by CR LF, that are a From, a Date and a Message-ID header, in that
\* order, for exactly the names that no header field of the message
\* carries, compared without regard to case; with none missing the message
\* is handed over as it is.
C22_MissingHeaders ==
    \A k \in 1..Len(sends) :
        LET raw == sends[k].raw
            n == Len(raw) - Len(email)
        IN  /\ n >= 0
            /\ Suffix(raw, n) = email
            /\ n > 0 => n >= 2 /\ raw[n - 1] = CR /\ raw[n] = LF
            /\ LET ls == CrlfLines(Prefix(raw, n), 1, <<>>)
               IN  [i \in 1..Len(ls) |-> GeneratedName(ls[i])] = MissingNames(headers)

\* the message has a "date" and a "MESSAGE-ID" header and no From; -F is
\* given: only the From line is added
C22_Witness ==
    /\ Len(sends) = 1
    /\ cli.fullname # <<>>
    /\ Len(headers) = 2
    /\ MissingNames(headers) = << <<102, 114, 111, 109>> >>
    /\ Len(sends[1].raw) > Len(email)
    /\ Prefix(sends[1].raw, 7) = FromPrefix \o <<DQUOTE>>

\* ---------------------------------------------------------------------
\* C29: line breaks and control characters in the normalized output
\* ---------------------------------------------------------------------

\* the index i of t lies inside a quoted-string or a domain-literal of t
RECURSIVE InsideDelimited(_, _, _, _)
InsideDelimited(t, i, k, mode) ==
    IF k = i THEN mode # "out"
    ELSE IF mode = "out"
         THEN InsideDelimited(t, i, k + 1,
                              IF t[k] = DQUOTE THEN "quote"
                              ELSE IF t[k] = LBRACKET THEN "literal" ELSE "out")
    ELSE IF t[k] = BACKSLASH /\ k + 1 < i THEN InsideDelimited(t, i, k + 2, mode)
    ELSE IF t[k] = BACKSLASH THEN TRUE
    ELSE IF (mode = "quote" /\ t[k] = DQUOTE) \/ (mode = "literal" /\ t[k] = RBRACKET)
         THEN InsideDelimited(t, i, k + 1, "out")
    ELSE InsideDelimited(t, i, k + 1, mode)

\* C29: the output of a successful parse holds no CR, no LF and no other
\* control character, except a tab inside a quoted-string or a
\* domain-literal.
C29_NoLineBreakInOutput ==
    pc # "init" /\ result.ok =>
        \A i \in 1..Len(result.val) :
            /\ result.val[i] \notin {CR, LF}
            /\ ~IsControl(result.val[i])
            /\ result.val[i] = HTAB => InsideDelimited(result.val, i, 1, "out")

\* a fold inside a quoted-string or domain-literal of an accepted input has
\* become a space
C29_Witness ==
    /\ pc # "init"
    /\ result.ok
    /\ Contains(input, CR)
    /\ Contains(input, LF)
    /\ Contains(result.val, SP)
    /\ ~Contains(result.val, LF)

\* ---------------------------------------------------------------------
\* C24: backend selection
\* ---------------------------------------------------------------------

SpecBackend == StartBackend /\ [][NextBackend]_vars

SmtpSet == config.relay_host # None

ApiSet == config.api_url # None \/ config.api_sender # None \/ config.api_token # None

\* what the SMTP settings give when the SMTP backend is the choice
SmtpChoice ==
    IF (config.relay_user # None) # (config.relay_pass # None)
    THEN [ok |-> FALSE, err |-> "OnlyUsernameOrPasswordProvided"]
    ELSE [ok |-> TRUE, backend |-> "smtp"]

\* what the API settings give when the API backend is the choice
ApiChoice ==
    IF config.api_url = None \/ config.api_sender = None \/ config.api_token = None
    THEN [ok |-> FALSE, err |-> "ApiConfigIncomplete"]
    ELSE IF ~config.sender_valid THEN [ok |-> FALSE, err |-> "ApiInvalidEmailAddress"]
    ELSE [ok |-> TRUE, backend |-> "api"]

MaxBodyTail == 3

\* n times "a"
PadA(n) == [i \in 1..n |-> LetterA]

\* bodies around the limit: 0, 98 or 99 times "a", then up to MaxBodyTail
\* characters "a" or e-acute, which takes two bytes
Bodies ==
    {PadA(k) \o tail : k \in {0, ErrorMessageLimit - 2, ErrorMessageLimit - 1},
                      tail \in Strings({LetterA, EAcute}, MaxBodyTail)}

Statuses == {200, 201, 202, 204, 301, 400, 401, 402, 403, 404, 413, 429, 499, 500, 503, 599, 600}

Requests ==
    [url_empty : BOOLEAN, to_empty : BOOLEAN, net_ok : BOOLEAN, text_ok : BOOLEAN,
     status : Statuses, body : Bodies]

StartApi ==
    /\ response \in Requests
    /\ reply = <<>>
    /\ pc = "request"
    /\ input = <<>>
    /\ result = NoResult
    /\ second = NoResult
    /\ email = <<>>
    /\ headers = <<>>
    /\ NoRun
    /\ NoBackend
    /\ NoEnv
    /\ NoFile

SpecApi == StartApi /\ [][NextApi]_vars

\* the case of the claim: a URL, recipients, a response with a readable body
Answered ==
    /\ pc = "replied"
    /\ ~response.url_empty
    /\ ~response.to_empty
    /\ response.net_ok
    /\ response.text_ok

\* the body when it has at most 100 characters, else its first 100
FirstHundred(b) == IF Len(b) <= 100 THEN b ELSE SubSeq(b, 1, 100)

\* C25: with a URL and recipients, the send returns Ok(()) exactly for
\* status 202; 400, 401, 402, 403 and 413 give their own errors, 500-599
\* ApiServerError with the status, every other status ApiUnexpectedStatus
\* with the status; the message is the body when it is at most 100 long
\* and its first 100 characters otherwise.
C25_StatusMapping ==
    Answered =>
        LET s == response.status
        IN  /\ reply.kind = "Ok" <=> s = 202
            /\ s # 202 =>
                   /\ reply.kind = "Err"
                   /\ reply.err = (IF s = 400 THEN "ApiBadRequest"
                                   ELSE IF s = 401 THEN "ApiUnauthorized"
                                   ELSE IF s = 402 THEN "ApiQuotaExceeded"
                                   ELSE IF s = 403 THEN "ApiForbidden"
                                   ELSE IF s = 413 THEN "ApiMessageTooLarge"
                                   ELSE IF s >= 500 /\ s <= 599 THEN "ApiServerError"
                                   ELSE "ApiUnexpectedStatus")
                   /\ reply.err \in {"ApiServerError", "ApiUnexpectedStatus"} => reply.status = s
                   /\ reply.msg = FirstHundred(response.body)

\* ---------------------------------------------------------------------
\* C26, C27: parse_cli_args and the environment
\* ---------------------------------------------------------------------

MaxEnvs == 2

Keys == {"SENDMAIL_FILE_PATH", "SENDMAIL_RELAY_HOST"}

\* the lists of (key, value) pairs of up to MaxEnvs entries
EnvLists == Strings(Keys \X {"1", "2"}, MaxEnvs)

\* the environments a call can find: each variable unset, set, or set to a
\* value that is not valid Unicode
Environments == [Keys -> {None, Some("0"), Some(NotUnicode)}]

StartEnv ==
    /\ env \in Environments
    /\ lock = 0
    /\ \E l1 \in EnvLists, l2 \in EnvLists :
           threads = [t \in Tids |->
                         [pc |-> "start", envs |-> IF t = 1 THEN l1 ELSE l2, i |-> 1,
                          restored |-> <<>>, parsed |-> env, ok |-> FALSE,
                          initial |-> env, entry |-> env, left |-> env]]
    /\ pc = "threads"
    /\ input = <<>>
    /\ result = NoResult
    /\ second = NoResult
    /\ email = <<>>
    /\ headers = <<>>
    /\ NoRun
    /\ NoBackend
    /\ NoApi
    /\ NoFile

SpecEnv == StartEnv /\ [][NextEnv]_vars

\* C26: when a call of parse_cli_args has returned, with arguments or with
\* an error, every variable has the value it had when the call began and
\* every variable that was unset then is unset.
C26_EnvironmentRestored ==
    \A t \in DOMAIN threads : threads[t].pc = "done" => threads[t].left = threads[t].entry

\* the environment e with the pairs l[1..] set in order
RECURSIVE Overlay(_, _, _)
Overlay(e, l, i) ==
    IF i > Len(l) THEN e ELSE Overlay([e EXCEPT ![l[i][1]] = Some(l[i][2])], l, i + 1)

InSection(t) == threads[t].pc \in {"set", "restore"}

\* C27: the sections of two calls between taking and dropping PARSER_MUTEX
\* never overlap, and what a call parses is the environment as it was
\* before any call with the call's own pairs set, never a value set by
\* another call.
C27_CallsIsolated ==
    /\ \A t, u \in DOMAIN threads : InSection(t) /\ InSection(u) => t = u
    /\ \A t \in DOMAIN threads :
           threads[t].pc \in {"restore", "done"} =>
               threads[t].parsed = Overlay(threads[t].initial, threads[t].envs, 1)

\* ---------------------------------------------------------------------
\* C28: the file backend appends
\* ---------------------------------------------------------------------

\* the file exists with some content, or is created by the first send
StartFile ==
    /\ file \in {<<>>, <<LetterA, LF>>}
    /\ calls = <<>>
    /\ pc = "file"
    /\ input = <<>>
    /\ result = NoResult
    /\ second = NoResult
    /\ email = <<>>
    /\ headers = <<>>
    /\ NoRun
    /\ NoBackend
    /\ NoApi
    /\ NoEnv

SpecFile == StartFile /\ [][NextFile]_vars

\* the recipients separated by ", "
RECURSIVE CommaList(_, _)
CommaList(to, i) ==
    IF i > Len(to) THEN <<>>
    ELSE (IF i > 1 THEN <<44, SP>> ELSE <<>>) \o to[i] \o CommaList(to, i + 1)

\* the record of a send
Record(c) ==
    <<69, 110, 118, 101, 108, 111, 112, 101, 45, 70, 114, 111, 109, 58, 32>> \o c.from \o <<LF>>
    \o <<69, 110, 118, 101, 108, 111, 112, 101, 45, 84, 111, 58, 32>> \o CommaList(c.to, 1) \o <<LF>>
    \o <<45, 45, 45, LF>> \o c.raw \o <<LF>> \o <<45, 45, 45, LF>>

\* C28: no send, successful or not, changes or removes what the file
\* held, and a successful send adds exactly its record (the Envelope-From
\* line, the Envelope-To line with the recipients joined by ", ", a "---"
\* line, the raw message, a "---" line) at the end; so after sends that
\* all succeeded the file holds their records in call order.
C28_SendAppendsRecord ==
    [][/\ Len(file') >= Len(file)
       /\ SubSeq(file', 1, Len(file)) = file
       /\ calls' # calls /\ calls'[Len(calls')].ok =>
              file' = file \o Record(calls'[Len(calls')])]_vars

\* two successful sends, to two recipients and to one: both records stand
\* in the file in call order
C28_Witness ==
    /\ Len(calls) = 2
    /\ calls[1].ok /\ calls[2].ok
    /\ calls[1].to = <<AddrOther, AddrPlain>>
    /\ calls[2].to = <<AddrPlain>>
    /\ calls[1].raw # calls[2].raw
    /\ file = Record(calls[1]) \o Record(calls[2])

====
